---- MODULE Spec2Model ----
(***************************************************************************)
(* FocusLog: the capture-classify-rollup daemon (focuslogd/daemon.py) and  *)
(* its SQLite store (focuslogd/database.py).                               *)
(*                                                                         *)
(* Time is the wall clock in whole seconds.  datetime values are stored   *)
(* by the store as fixed-format ISO strings whose lexicographic order is   *)
(* the chronological order, so a timestamp is modelled by its number of    *)
(* seconds and SQL comparisons of timestamps by integer comparisons.       *)
(***************************************************************************)
EXTENDS Integers, Sequences, FiniteSets, TLC

VARIABLES
    clock,                \* datetime.now() / time.time()
    running,              \* FocusLogDaemon.running
    iteration,            \* run(): iteration
    next_capture_time,    \* run(): next_capture_time
    loop_pc,              \* position of the tick loop in run()
    last_5min_summary,    \* FocusLogDaemon.last_5min_summary (watermark)
    last_hourly_summary,  \* FocusLogDaemon.last_hourly_summary (watermark)
    captures,             \* table captures (+ captures_labels)
    labels,               \* table labels
    summaries,            \* table summaries
    workers,              \* _classify_and_save threads in flight
    gens,                 \* _generate_*_summary threads in flight
    calls,                \* get_or_create_label calls in flight (label harness)
    returned,             \* results of finished get_or_create_label calls
    thin_runs,            \* applications of the cleanup (thinning harness)
    db_open,              \* FocusLogDB.conn is open (close() not called yet)
    temp_files,           \* focuslog_* temporary directories on disk
    available,            \* what the constructors of __init__ find installed
    exit_status           \* <<>> while the process lives, <<n>> once it exited

vars == <<clock, running, iteration, next_capture_time, loop_pc,
          last_5min_summary, last_hourly_summary, captures, labels, summaries,
          workers, gens, calls, returned, thin_runs,
          db_open, temp_files, available, exit_status>>

loop_vars == <<running, iteration, next_capture_time, loop_pc>>
store_vars == <<captures, labels, summaries>>
harness_vars == <<calls, returned, thin_runs>>
proc_vars == <<db_open, temp_files, available, exit_status>>

----------------------------------------------------------------------------
(* Program constants *)

Interval == 15          \* capture interval in seconds (default)
Period5min == 300       \* _check_and_generate_summaries: 5 minutes
PeriodHourly == 3600    \* _check_and_generate_summaries: 60 minutes
WindowMinutes == 5      \* cleanup: (minutes // 5) * 5

(* Bounds of the model *)

StartTime == 7200       \* the wall clock when the daemon is constructed
MaxTicks == 2           \* iterations of the tick loop that are explored
MaxAdvances == 1        \* times the wall clock is seen to move forward
MaxThinRows == 3        \* rows of the captures table in the thinning harness
MaxCalls == 3           \* get_or_create_label calls in the label harness
MaxThinRuns == 2        \* applications of the cleanup in the thinning harness
MaxSavers == 2          \* classification threads in the save harness

NULL == "NULL"

----------------------------------------------------------------------------
(* Helpers *)

Max(S) == CHOOSE x \in S : \A y \in S : y <= x

\* AUTOINCREMENT: rows are never deleted, so the next id is one past the largest
NextId(table) == IF table = {} THEN 1 ELSE Max({r.id : r \in table}) + 1

\* str.startswith("Error generating summary:") on a text given as its words
ErrorPrefix == "Error generating summary:"
startswith_error(text) == Len(text) >= 1 /\ text[1] = ErrorPrefix

\* What the Summarizer can return: a summary, or the error marker string
GenuineSummary == <<"Worked", "on", "code">>
ErrorSummary == <<ErrorPrefix, "Response status failed">>
SummarizerReturns == {GenuineSummary, ErrorSummary}

----------------------------------------------------------------------------
(* The store: focuslogd/database.py *)

\* CREATE TABLE captures: "screenshot BLOB NOT NULL"
screenshot_not_null == TRUE

\* A screenshot column holds PNG bytes, the empty bytes b"" or NULL
PNG == "png"
EMPTY == "empty"

\* CURRENT_TIMESTAMP (the column default) and datetime.now().isoformat() (the
\* UPDATE) write last_used in two formats; iso tells which one a row holds
LastUsedDefault(t) == [t |-> t, iso |-> FALSE]
LastUsedIso(t) == [t |-> t, iso |-> TRUE]

\* ORDER BY last_used compares the stored TEXT values byte by byte.  Both
\* formats begin with the date, "YYYY-MM-DD"; then CURRENT_TIMESTAMP has a
\* space where isoformat() has a "T", and " " < "T"; then the time of day.
\* (The clock of the model is UTC, as CURRENT_TIMESTAMP is.)
last_used_less(a, b) ==
    LET day_a == a.t \div 86400
        day_b == b.t \div 86400
    IN \/ day_a < day_b
       \/ day_a = day_b /\ ~a.iso /\ b.iso
       \/ day_a = day_b /\ a.iso = b.iso /\ a.t < b.t

\* get_all_labels: SELECT name FROM labels ORDER BY last_used DESC (rows of
\* equal last_used in rowid order)
RECURSIVE get_all_labels(_)
get_all_labels(lbls) ==
    IF lbls = {} THEN <<>>
    ELSE LET first == CHOOSE l \in lbls : \A o \in lbls \ {l} :
                          \/ last_used_less(o.last_used, l.last_used)
                          \/ (~last_used_less(l.last_used, o.last_used) /\ l.id < o.id)
         IN <<first.name>> \o get_all_labels(lbls \ {first})

\* SELECT id FROM labels WHERE name = ?  (fetchone)
select_label(lbls, name) == {l \in lbls : l.name = name}

\* UPDATE labels SET last_used = ? WHERE id = ?
update_last_used(lbls, id, t) ==
    {IF l.id = id THEN [l EXCEPT !.last_used = LastUsedIso(t)] ELSE l : l \in lbls}

\* insert_label as it would be on a name column without UNIQUE
insert_label_no_unique(lbls, name, t) ==
    [raised |-> FALSE,
     rows |-> lbls \cup {[id |-> NextId(lbls), name |-> name,
                          last_used |-> LastUsedDefault(t)]},
     id |-> NextId(lbls)]

\* INSERT INTO labels (name) VALUES (?) under "name TEXT UNIQUE NOT NULL":
\* the new table and id, or raised when the name is already there
insert_label(lbls, name, t) ==
    IF \E l \in lbls : l.name = name
    THEN [raised |-> TRUE, rows |-> lbls, id |-> 0]
    ELSE [raised |-> FALSE,
          rows |-> lbls \cup {[id |-> NextId(lbls), name |-> name,
                               last_used |-> LastUsedDefault(t)]},
          id |-> NextId(lbls)]

\* get_or_create_label run without interruption: [rows, id]
get_or_create_label(lbls, name, t) ==
    LET row == select_label(lbls, name) IN
    IF row # {}
    THEN LET r == CHOOSE l \in row : TRUE IN
         [rows |-> update_last_used(lbls, r.id, t), id |-> r.id]
    ELSE LET ins == insert_label(lbls, name, t) IN
         [rows |-> ins.rows, id |-> ins.id]

\* save_capture's loop "for label_name in labels": [rows, ids]
RECURSIVE resolve_labels(_, _, _)
resolve_labels(lbls, names, t) ==
    IF names = <<>>
    THEN [rows |-> lbls, ids |-> {}]
    ELSE LET one == get_or_create_label(lbls, Head(names), t)
             rest == resolve_labels(one.rows, Tail(names), t)
         IN [rows |-> rest.rows, ids |-> {one.id} \cup rest.ids]

\* INSERT INTO captures (...)
capture_row(caps, timestamp, screenshot, description, error, label_ids) ==
    [id |-> NextId(caps), timestamp |-> timestamp, screenshot |-> screenshot,
     description |-> description, classification_error |-> error,
     labels |-> label_ids]

\* summaries.video_path: <<>> for NULL, <<start>> for videos/focuslog_<start>.mp4
NoVideo == <<>>
VideoFile(start_time) == <<start_time>>

\* save_summary: INSERT INTO summaries (...)
save_summary(sums, summary_type, start_time, end_time, content, video_path) ==
    sums \cup {[id |-> NextId(sums), summary_type |-> summary_type,
                start_time |-> start_time, end_time |-> end_time,
                content |-> content, video_path |-> video_path]}

\* get_latest_summary: ORDER BY end_time DESC LIMIT 1 (the set of candidates)
get_latest_summary(sums, summary_type) ==
    {r \in sums : /\ r.summary_type = summary_type
                  /\ \A o \in sums : o.summary_type = summary_type
                                        => o.end_time <= r.end_time}

\* get_captures_since: WHERE timestamp > ?
get_captures_since(caps, since_time) ==
    {c \in caps : c.timestamp > since_time}

\* get_summaries_in_range: WHERE summary_type = ? AND start_time >= ? AND end_time <= ?
get_summaries_in_range(sums, summary_type, start_time, end_time) ==
    {r \in sums : /\ r.summary_type = summary_type
                  /\ r.start_time >= start_time
                  /\ r.end_time <= end_time}

----------------------------------------------------------------------------
(* cleanup_screenshots_except_thumbnails *)

\* capture_time.replace(minute=(minute // 5) * 5, second=0, microsecond=0)
window_start(ts) ==
    LET minutes == (ts \div 60) % 60
        window_minute == (minutes \div WindowMinutes) * WindowMinutes
    IN ts - (ts % 60) - (minutes - window_minute) * 60

\* WHERE timestamp >= ? AND timestamp < ?
cleanup_range(caps, start_time, end_time) ==
    {c \in caps : c.timestamp >= start_time /\ c.timestamp < end_time}

\* ORDER BY timestamp ASC (rows of one timestamp in rowid order)
Before(a, b) == a.timestamp < b.timestamp \/ (a.timestamp = b.timestamp /\ a.id < b.id)

RECURSIVE order_by_timestamp(_)
order_by_timestamp(rows) ==
    IF rows = {} THEN <<>>
    ELSE LET first == CHOOSE r \in rows : \A o \in rows \ {r} : Before(r, o)
         IN <<first>> \o order_by_timestamp(rows \ {first})

\* the loop "for capture in captures": [thumbnails, to_delete] as sets of ids;
\* current_window_start is <<>> for None and <<w>> for the window start w
RECURSIVE group_windows(_, _, _)
group_windows(rows, current_window_start, acc) ==
    IF rows = <<>> THEN acc
    ELSE LET capture == Head(rows)
             ws == <<window_start(capture.timestamp)>>
         IN IF current_window_start # ws
            THEN group_windows(Tail(rows), ws,
                     [acc EXCEPT !.thumbnails = @ \cup {capture.id}])
            ELSE group_windows(Tail(rows), current_window_start,
                     [acc EXCEPT !.to_delete = @ \cup {capture.id}])

\* the statement as it would be if it removed the rows: DELETE FROM captures
\* WHERE id IN (...)
delete_captures(caps, ids) ==
    [raised |-> FALSE, rows |-> {c \in caps : c.id \notin ids}]

\* UPDATE captures SET screenshot = NULL WHERE id IN (...): the statement is
\* rejected as a whole when the column is NOT NULL
update_screenshot_null(caps, ids) ==
    IF screenshot_not_null
    THEN [raised |-> TRUE, rows |-> caps]
    ELSE [raised |-> FALSE,
          rows |-> {IF c.id \in ids THEN [c EXCEPT !.screenshot = NULL] ELSE c
                    : c \in caps}]

\* the cleanup as it would be if it read only the rows that still hold a
\* payload and blanked, with b"", the wrong one of its two lists
cleanup_by_payload_presence(caps, start_time, end_time) ==
    LET rows == order_by_timestamp(
                    {c \in cleanup_range(caps, start_time, end_time) : c.screenshot = PNG})
        g == group_windows(rows, <<>>, [thumbnails |-> {}, to_delete |-> {}])
    IN IF g.to_delete = {}
       THEN [raised |-> FALSE, rows |-> caps, kept |-> g.thumbnails, deleted |-> {}]
       ELSE [raised |-> FALSE,
             rows |-> {IF c.id \in g.thumbnails THEN [c EXCEPT !.screenshot = EMPTY]
                       ELSE c : c \in caps},
             kept |-> g.to_delete, deleted |-> g.thumbnails]

\* the whole call: [raised, rows, kept, deleted]
cleanup_screenshots_except_thumbnails(caps, start_time, end_time) ==
    LET rows == order_by_timestamp(cleanup_range(caps, start_time, end_time))
        g == group_windows(rows, <<>>, [thumbnails |-> {}, to_delete |-> {}])
    IN IF rows = <<>>
       THEN [raised |-> FALSE, rows |-> caps, kept |-> {}, deleted |-> {}]
       ELSE IF g.to_delete = {}
       THEN [raised |-> FALSE, rows |-> caps, kept |-> g.thumbnails, deleted |-> {}]
       ELSE LET u == update_screenshot_null(caps, g.to_delete)
            IN [raised |-> u.raised, rows |-> u.rows,
                kept |-> g.thumbnails, deleted |-> g.to_delete]

----------------------------------------------------------------------------
(* The daemon: focuslogd/daemon.py                                         *)
(*                                                                         *)
(* The tick loop and every background thread share the store and the two   *)
(* watermarks.  An action of a thread runs from one access of that shared  *)
(* state to the next one that another thread can interfere with; calls of  *)
(* the external collaborators touch nothing shared and are part of the     *)
(* action that precedes them.                                              *)

Types == {"5min", "hourly"}

Drop(f, k) == [x \in DOMAIN f \ {k} |-> f[x]]

\* a generation thread before it has run a line
NewGen(type) ==
    [type |-> type, pc |-> "begin", now |-> 0, start_time |-> 0, src |-> {},
     summary |-> <<>>, video_path |-> NoVideo]

\* the seeding as it would be if __init__ did not look into the database
seed_watermark_fresh(sums, summary_type, now, period) == now - period

\* __init__: both watermarks seeded from the latest summary or now - period
seed_watermark(sums, summary_type, now, period) ==
    IF get_latest_summary(sums, summary_type) # {}
    THEN (CHOOSE r \in get_latest_summary(sums, summary_type) : TRUE).end_time
    ELSE now - period

\* what __init__ looks for: the grim binary, the OpenAI API key, ffmpeg
Requirements == {"grim", "api_key", "ffmpeg"}

\* the process is up: everything was found, the connection is open
ProcessUp ==
    /\ db_open = TRUE
    /\ temp_files = {}
    /\ available = Requirements
    /\ exit_status = <<>>

\* the process has not exited; its daemon threads die with it
Alive == exit_status = <<>>

InitDaemon ==
    /\ ProcessUp
    /\ clock = StartTime
    /\ running = TRUE
    /\ iteration = 0
    /\ next_capture_time = StartTime
    /\ loop_pc = "top"
    /\ captures = {}
    /\ labels = {}
    /\ summaries = {}
    /\ last_5min_summary = seed_watermark(summaries, "5min", clock, Period5min)
    /\ last_hourly_summary = seed_watermark(summaries, "hourly", clock, PeriodHourly)
    /\ workers = <<>>
    /\ gens = <<>>

HarnessIdle == calls = <<>> /\ returned = <<>> /\ thin_runs = 0

Init == InitDaemon /\ HarnessIdle

\* the wall clock moves on, by d seconds (one capture interval, or one 5-minute
\* period); Moves(t) is the number of such moves that lead from StartTime to t
Moves(t) ==
    ((t - StartTime) \div Period5min) + (((t - StartTime) % Period5min) \div Interval)

Advance(d) ==
    /\ Moves(clock + d) <= MaxAdvances
    /\ clock' = clock + d
    /\ UNCHANGED <<loop_vars, store_vars, last_5min_summary, last_hourly_summary,
                   workers, gens, harness_vars, proc_vars>>

\* the loop head as it would be under "while True"
run_top_while_true ==
    /\ loop_pc = "top"
    /\ iteration < MaxTicks
    /\ iteration' = iteration + 1
    /\ loop_pc' = IF clock < next_capture_time THEN "sleep" ELSE "tick"
    /\ UNCHANGED <<clock, running, next_capture_time, store_vars,
                   last_5min_summary, last_hourly_summary, workers, gens, harness_vars,
                   proc_vars>>

\* the loop head as it would be with a sleep after every tick, whether or
\* not the deadline has passed
run_top_always_sleep ==
    /\ loop_pc = "top"
    /\ running
    /\ iteration < MaxTicks
    /\ iteration' = iteration + 1
    /\ loop_pc' = "sleep"
    /\ UNCHANGED <<clock, running, next_capture_time, store_vars,
                   last_5min_summary, last_hourly_summary, workers, gens, harness_vars, proc_vars>>

\* run(): "while self.running", iteration += 1, "if now < next_capture_time"
run_top ==
    /\ loop_pc = "top"
    /\ running
    /\ iteration < MaxTicks
    /\ iteration' = iteration + 1
    /\ loop_pc' = IF clock < next_capture_time THEN "sleep" ELSE "tick"
    /\ UNCHANGED <<clock, running, next_capture_time, store_vars,
                   last_5min_summary, last_hourly_summary, workers, gens, harness_vars, proc_vars>>

\* run(): time.sleep(sleep_time) returns once the deadline has passed
run_sleep ==
    /\ loop_pc = "sleep"
    /\ clock >= next_capture_time
    /\ loop_pc' = "tick"
    /\ UNCHANGED <<clock, running, iteration, next_capture_time,
                   store_vars, last_5min_summary, last_hourly_summary, workers, gens,
                   harness_vars, proc_vars>>

\* run(): next_capture_time = time.time() + self.interval
schedule_next(now, previous_deadline) == now + Interval

\* _check_and_generate_summaries: is a generation of this type due at now
due(type, now) ==
    IF type = "5min" THEN now - last_5min_summary >= Period5min
                     ELSE now - last_hourly_summary >= PeriodHourly

\* _check_and_generate_summaries: a thread is started for every type that is due
check_and_generate_summaries ==
    LET started == {<<type, iteration>> : type \in {t \in Types : due(t, clock)}}
    IN gens' = [k \in DOMAIN gens \cup started |->
                  IF k \in started THEN NewGen(k[1]) ELSE gens[k]]

\* the failed tick as it would be if the capture were handed to a
\* classification thread all the same
tick_capture_failed_and_classify ==
    /\ loop_pc = "tick"
    /\ next_capture_time' = schedule_next(clock, next_capture_time)
    /\ captures' = IF db_open
                   THEN captures \cup {capture_row(captures, clock, EMPTY, NULL,
                                                   "Screenshot capture failed", {})}
                   ELSE captures
    /\ workers' = [k \in DOMAIN workers \cup {iteration} |->
                     IF k = iteration THEN [timestamp |-> clock] ELSE workers[k]]
    /\ check_and_generate_summaries
    /\ loop_pc' = "top"
    /\ UNCHANGED <<clock, running, iteration, labels, summaries,
                   last_5min_summary, last_hourly_summary, harness_vars, proc_vars>>

\* the failed tick as it would be if the error row were filed under a label
\* of its own
tick_capture_failed_labelled ==
    /\ loop_pc = "tick"
    /\ next_capture_time' = schedule_next(clock, next_capture_time)
    /\ IF db_open
       THEN LET r == resolve_labels(labels, <<"capture failed">>, clock)
            IN /\ labels' = r.rows
               /\ captures' = captures \cup
                     {capture_row(captures, clock, EMPTY, NULL,
                                  "Screenshot capture failed", r.ids)}
               /\ check_and_generate_summaries
       ELSE /\ captures' = captures
            /\ labels' = labels
            /\ gens' = gens
    /\ loop_pc' = "top"
    /\ UNCHANGED <<clock, running, iteration, summaries,
                   last_5min_summary, last_hourly_summary, workers, harness_vars, proc_vars>>

\* the body of one tick with a failed capture: the next deadline is set, the
\* error row is saved by the tick itself, then the due-check runs
tick_capture_failed ==
    /\ loop_pc = "tick"
    /\ next_capture_time' = schedule_next(clock, next_capture_time)
    /\ IF db_open
       THEN /\ captures' = captures \cup
                  {capture_row(captures, clock, EMPTY, NULL, "Screenshot capture failed", {})}
            /\ check_and_generate_summaries
       ELSE \* save_capture raises on the closed connection: "except Exception"
            \* of run() sets the deadline again and the due-check is skipped
            /\ captures' = captures
            /\ gens' = gens
    /\ loop_pc' = "top"
    /\ UNCHANGED <<clock, running, iteration, labels, summaries,
                   last_5min_summary, last_hourly_summary, workers, harness_vars, proc_vars>>

\* the successful tick as it would be if it joined the classification thread
\* of the tick before: it cannot be taken while that thread is in flight
tick_capture_and_classify_joined ==
    /\ loop_pc = "tick"
    /\ workers = <<>>
    /\ next_capture_time' = schedule_next(clock, next_capture_time)
    /\ workers' = [k \in DOMAIN workers \cup {iteration} |->
                     IF k = iteration THEN [timestamp |-> clock] ELSE workers[k]]
    /\ check_and_generate_summaries
    /\ loop_pc' = "top"
    /\ UNCHANGED <<clock, running, iteration, store_vars,
                   last_5min_summary, last_hourly_summary, harness_vars, proc_vars>>

\* the body of one tick with a successful capture: the next deadline is set, a
\* classification thread is started with the payload, then the due-check runs
tick_capture_and_classify ==
    /\ loop_pc = "tick"
    /\ next_capture_time' = schedule_next(clock, next_capture_time)
    /\ workers' = [k \in DOMAIN workers \cup {iteration} |->
                     IF k = iteration THEN [timestamp |-> clock] ELSE workers[k]]
    /\ check_and_generate_summaries
    /\ loop_pc' = "top"
    /\ UNCHANGED <<clock, running, iteration, store_vars,
                   last_5min_summary, last_hourly_summary, harness_vars, proc_vars>>

\* what the Classifier can return
ClassifierReturns ==
    {[success |-> TRUE, labels |-> <<"coding">>],
     [success |-> FALSE, labels |-> <<>>]}

\* _classify_and_save as it would be if a failed classification were saved
\* under a label of its own
classify_and_save_label_errors(w, result) ==
    /\ Alive /\ db_open
    /\ w \in DOMAIN workers
    /\ LET names == IF result.success THEN result.labels ELSE <<"unclassified">>
           r == resolve_labels(labels, names, clock)
       IN /\ labels' = r.rows
          /\ captures' = captures \cup
                {IF result.success
                 THEN capture_row(captures, workers[w].timestamp, PNG, "description",
                                  NULL, r.ids)
                 ELSE capture_row(captures, workers[w].timestamp, PNG, NULL,
                                  "classification error", {})}
    /\ workers' = Drop(workers, w)
    /\ UNCHANGED <<clock, loop_vars, summaries, last_5min_summary,
                   last_hourly_summary, gens, harness_vars, proc_vars>>

\* _classify_and_save: classify, then save_capture with the labels or the error
classify_and_save(w, result) ==
    /\ Alive /\ db_open
    /\ w \in DOMAIN workers
    /\ IF result.success
       THEN LET r == resolve_labels(labels, result.labels, clock)
            IN /\ labels' = r.rows
               /\ captures' = captures \cup
                     {capture_row(captures, workers[w].timestamp, PNG, "description",
                                  NULL, r.ids)}
       ELSE /\ labels' = labels
            /\ captures' = captures \cup
                  {capture_row(captures, workers[w].timestamp, PNG, NULL,
                               "classification error", {})}
    /\ workers' = Drop(workers, w)
    /\ UNCHANGED <<clock, loop_vars, summaries, last_5min_summary,
                   last_hourly_summary, gens, harness_vars, proc_vars>>

----------------------------------------------------------------------------
(* _generate_5min_summary *)

SetGen(k, r) == gens' = [gens EXCEPT ![k] = r]
EndGen(k) == gens' = Drop(gens, k)
At(k, type, pc) ==
    Alive /\ k \in DOMAIN gens /\ gens[k].type = type /\ gens[k].pc = pc

\* now = datetime.now(); start_time = self.last_5min_summary
generate_5min_begin(k) ==
    /\ At(k, "5min", "begin")
    /\ SetGen(k, [gens[k] EXCEPT !.now = clock, !.start_time = last_5min_summary,
                                 !.pc = "fetch"])
    /\ UNCHANGED <<clock, loop_vars, store_vars, last_5min_summary,
                   last_hourly_summary, workers, harness_vars, proc_vars>>

\* the empty branch as it would be without "self.last_5min_summary = now"
generate_5min_empty_no_advance(k) ==
    /\ At(k, "5min", "fetch")
    /\ db_open
    /\ get_captures_since(captures, gens[k].start_time) = {}
    /\ EndGen(k)
    /\ UNCHANGED <<clock, loop_vars, store_vars, last_5min_summary,
                   last_hourly_summary, workers, harness_vars, proc_vars>>

\* captures = get_captures_since(start_time); "if not captures": the watermark
\* is set to now and the thread returns
generate_5min_empty(k) ==
    /\ At(k, "5min", "fetch")
    /\ db_open
    /\ get_captures_since(captures, gens[k].start_time) = {}
    /\ last_5min_summary' = gens[k].now
    /\ EndGen(k)
    /\ UNCHANGED <<clock, loop_vars, store_vars, last_hourly_summary, workers,
                   harness_vars, proc_vars>>

\* captures = get_captures_since(start_time); summary = generate_5min_summary(
\* captures); the thread returns when the summary starts with the error marker
generate_5min_summarize(k, text) ==
    /\ At(k, "5min", "fetch")
    /\ db_open
    /\ get_captures_since(captures, gens[k].start_time) # {}
    /\ IF startswith_error(text)
       THEN EndGen(k)
       ELSE SetGen(k, [gens[k] EXCEPT
                         !.src = {c.id : c \in get_captures_since(captures, gens[k].start_time)},
                         !.summary = text, !.pc = "save"])
    /\ UNCHANGED <<clock, loop_vars, store_vars, last_5min_summary,
                   last_hourly_summary, workers, harness_vars, proc_vars>>

\* the save as it would be with the watermark assigned before save_summary
generate_5min_save_advance_first(k, stored) ==
    /\ At(k, "5min", "save")
    /\ db_open
    /\ last_5min_summary' = gens[k].now
    /\ IF stored
       THEN /\ summaries' = save_summary(summaries, "5min", gens[k].start_time,
                                         gens[k].now, gens[k].summary, NoVideo)
            /\ SetGen(k, [gens[k] EXCEPT !.pc = "advance"])
       ELSE /\ summaries' = summaries
            /\ EndGen(k)
    /\ UNCHANGED <<clock, loop_vars, captures, labels,
                   last_hourly_summary, workers, harness_vars, proc_vars>>

\* save_summary('5min', start_time, now, summary); an exception of the store
\* ends the thread in "except Exception"
generate_5min_save(k, stored) ==
    /\ At(k, "5min", "save")
    /\ db_open
    /\ IF stored
       THEN /\ summaries' = save_summary(summaries, "5min", gens[k].start_time,
                                         gens[k].now, gens[k].summary, NoVideo)
            /\ SetGen(k, [gens[k] EXCEPT !.pc = "advance"])
       ELSE /\ summaries' = summaries
            /\ EndGen(k)
    /\ UNCHANGED <<clock, loop_vars, captures, labels, last_5min_summary,
                   last_hourly_summary, workers, harness_vars, proc_vars>>

\* self.last_5min_summary = now
generate_5min_advance(k) ==
    /\ At(k, "5min", "advance")
    /\ last_5min_summary' = gens[k].now
    /\ EndGen(k)
    /\ UNCHANGED <<clock, loop_vars, store_vars, last_hourly_summary, workers,
                   harness_vars, proc_vars>>

----------------------------------------------------------------------------
(* _generate_hourly_summary *)

\* now = datetime.now(); start_time = self.last_hourly_summary
generate_hourly_begin(k) ==
    /\ At(k, "hourly", "begin")
    /\ SetGen(k, [gens[k] EXCEPT !.now = clock, !.start_time = last_hourly_summary,
                                 !.pc = "fetch"])
    /\ UNCHANGED <<clock, loop_vars, store_vars, last_5min_summary,
                   last_hourly_summary, workers, harness_vars, proc_vars>>

\* five_min_summaries = get_summaries_in_range('5min', start_time, now);
\* "if not five_min_summaries": the watermark is set to now, the thread returns
generate_hourly_empty(k) ==
    /\ At(k, "hourly", "fetch")
    /\ db_open
    /\ get_summaries_in_range(summaries, "5min", gens[k].start_time, gens[k].now) = {}
    /\ last_hourly_summary' = gens[k].now
    /\ EndGen(k)
    /\ UNCHANGED <<clock, loop_vars, store_vars, last_5min_summary, workers,
                   harness_vars, proc_vars>>

\* the summarize step as it would be without the startswith check: the video
\* block is entered whatever the Summarizer returned
generate_hourly_summarize_unchecked(k, text) ==
    /\ At(k, "hourly", "fetch")
    /\ db_open
    /\ get_summaries_in_range(summaries, "5min", gens[k].start_time, gens[k].now) # {}
    /\ SetGen(k, [gens[k] EXCEPT
                     !.src = {r.id : r \in get_summaries_in_range(
                                 summaries, "5min", gens[k].start_time, gens[k].now)},
                     !.summary = text, !.pc = "video"])
    /\ UNCHANGED <<clock, loop_vars, store_vars, last_5min_summary,
                   last_hourly_summary, workers, harness_vars, proc_vars>>

\* summary = generate_hourly_summary(five_min_summaries)
generate_hourly_summarize(k, text) ==
    /\ At(k, "hourly", "fetch")
    /\ db_open
    /\ get_summaries_in_range(summaries, "5min", gens[k].start_time, gens[k].now) # {}
    /\ IF startswith_error(text)
       THEN EndGen(k)
       ELSE SetGen(k, [gens[k] EXCEPT
                         !.src = {r.id : r \in get_summaries_in_range(
                                     summaries, "5min", gens[k].start_time, gens[k].now)},
                         !.summary = text, !.pc = "video"])
    /\ UNCHANGED <<clock, loop_vars, store_vars, last_5min_summary,
                   last_hourly_summary, workers, harness_vars, proc_vars>>

\* the frames staged for the encoder: captures since start_time whose
\* screenshot is truthy ("if capture.get('screenshot')")
staged_frames(caps, start_time) ==
    {c \in get_captures_since(caps, start_time) : c.screenshot = PNG}

\* video_path: the file when frames were staged and generate_video succeeded
video_result(frames, start_time, success) ==
    IF frames # {} /\ success THEN VideoFile(start_time) ELSE NoVideo

\* temp_dir = Path(tempfile.mkdtemp(prefix="focuslog_")) of thread k with the
\* capture_<i>.png files written into it
staged_dir(k, frames) == [dir |-> k, frames |-> frames]

\* shutil.rmtree(temp_dir, ignore_errors=True)
rmtree(files, k) == {f \in files : f.dir # k}

\* the frames thread k has on disk
frames_of(files, k) == UNION {f.frames : f \in {g \in files : g.dir = k}}

\* captures = get_captures_since(start_time, True); "if captures": mkdtemp and
\* the loop that writes the frames.  written = FALSE: write_bytes raises, the
\* "finally" removes the directory and the thread ends in "except Exception"
generate_hourly_stage(k, written) ==
    /\ At(k, "hourly", "video")
    /\ db_open
    /\ LET frames == {c.id : c \in staged_frames(captures, gens[k].start_time)}
       IN IF get_captures_since(captures, gens[k].start_time) = {}
          THEN /\ temp_files' = temp_files
               /\ SetGen(k, [gens[k] EXCEPT !.pc = "save"])
          ELSE IF written \/ frames = {}
          THEN /\ temp_files' = temp_files \cup {staged_dir(k, frames)}
               /\ SetGen(k, [gens[k] EXCEPT !.pc = "encode"])
          ELSE /\ temp_files' = rmtree(temp_files \cup {staged_dir(k, frames)}, k)
               /\ EndGen(k)
    /\ UNCHANGED <<clock, loop_vars, store_vars, last_5min_summary,
                   last_hourly_summary, workers, harness_vars,
                   db_open, available, exit_status>>

\* the encode step as it would be if the directory were removed only after a
\* successful generate_video
generate_hourly_encode_no_finally(k, outcome) ==
    /\ At(k, "hourly", "encode")
    /\ temp_files' = IF outcome = "success" \/ frames_of(temp_files, k) = {}
                     THEN rmtree(temp_files, k) ELSE temp_files
    /\ IF outcome = "raised" /\ frames_of(temp_files, k) # {}
       THEN EndGen(k)
       ELSE SetGen(k, [gens[k] EXCEPT
                         !.video_path = video_result(frames_of(temp_files, k),
                                            gens[k].start_time, outcome = "success"),
                         !.pc = "save"])
    /\ UNCHANGED <<clock, loop_vars, store_vars, last_5min_summary,
                   last_hourly_summary, workers, harness_vars,
                   db_open, available, exit_status>>

\* generate_video as it would be without its two checks: ffmpeg is run on
\* whatever it was given
generate_video_unchecked(screenshot_paths, exists, outcome) ==
    IF outcome = "raised"
    THEN [success |-> FALSE, raised |-> TRUE, encoder_runs |-> 0]
    ELSE [success |-> outcome = "success", raised |-> FALSE, encoder_runs |-> 1]

\* generate_video(screenshot_paths, output_path), given the paths that
\* os.path.exists finds and what ffmpeg does: no path, or no path that
\* exists, returns False before ffmpeg is run; os.makedirs or os.symlink can
\* raise; otherwise ffmpeg is run once and its outcome is returned
generate_video(screenshot_paths, exists, outcome) ==
    IF screenshot_paths = {}
    THEN [success |-> FALSE, raised |-> FALSE, encoder_runs |-> 0]
    ELSE IF outcome = "raised"
    THEN [success |-> FALSE, raised |-> TRUE, encoder_runs |-> 0]
    ELSE IF screenshot_paths \cap exists = {}
    THEN [success |-> FALSE, raised |-> FALSE, encoder_runs |-> 0]
    ELSE [success |-> outcome = "success", raised |-> FALSE, encoder_runs |-> 1]

\* the body of the "try" of the video block on the frames that were staged:
\* "if screenshot_paths": success = generate_video(...); "if success":
\* video_path = str(video_path_full)
video_block(frames, exists, start_time, outcome) ==
    IF frames = {}
    THEN [video_path |-> NoVideo, raised |-> FALSE, encoder_runs |-> 0]
    ELSE LET g == generate_video(frames, exists, outcome)
         IN [video_path |-> video_result(frames, start_time, g.success),
             raised |-> g.raised, encoder_runs |-> g.encoder_runs]

\* the "try" of the video block, with every staged file in place, and its
\* "finally": shutil.rmtree(temp_dir, ignore_errors=True)
generate_hourly_encode(k, outcome) ==
    /\ At(k, "hourly", "encode")
    /\ temp_files' = rmtree(temp_files, k)
    /\ LET v == video_block(frames_of(temp_files, k), frames_of(temp_files, k),
                            gens[k].start_time, outcome)
       IN IF v.raised
          THEN EndGen(k)
          ELSE SetGen(k, [gens[k] EXCEPT !.video_path = v.video_path, !.pc = "save"])
    /\ UNCHANGED <<clock, loop_vars, store_vars, last_5min_summary,
                   last_hourly_summary, workers, harness_vars,
                   db_open, available, exit_status>>

\* save_summary('hourly', start_time, now, summary, video_path); an exception
\* of the store ends the thread in "except Exception"
generate_hourly_save(k, stored) ==
    /\ At(k, "hourly", "save")
    /\ db_open
    /\ IF stored
       THEN /\ summaries' = save_summary(summaries, "hourly", gens[k].start_time,
                                  gens[k].now, gens[k].summary, gens[k].video_path)
            /\ SetGen(k, [gens[k] EXCEPT !.pc = "cleanup"])
       ELSE /\ summaries' = summaries
            /\ EndGen(k)
    /\ UNCHANGED <<clock, loop_vars, captures, labels, last_5min_summary,
                   last_hourly_summary, workers, harness_vars, proc_vars>>

\* cleanup_screenshots_except_thumbnails(start_time, now); its exception ends
\* the thread in "except Exception", before the watermark is set
generate_hourly_cleanup(k) ==
    /\ At(k, "hourly", "cleanup")
    /\ db_open
    /\ LET r == cleanup_screenshots_except_thumbnails(captures, gens[k].start_time,
                                                      gens[k].now)
       IN IF r.raised
          THEN /\ captures' = captures
               /\ EndGen(k)
          ELSE /\ captures' = r.rows
               /\ SetGen(k, [gens[k] EXCEPT !.pc = "advance"])
    /\ UNCHANGED <<clock, loop_vars, labels, summaries, last_5min_summary,
                   last_hourly_summary, workers, harness_vars, proc_vars>>

\* self.last_hourly_summary = now
generate_hourly_advance(k) ==
    /\ At(k, "hourly", "advance")
    /\ last_hourly_summary' = gens[k].now
    /\ EndGen(k)
    /\ UNCHANGED <<clock, loop_vars, store_vars, last_5min_summary, workers,
                   harness_vars, proc_vars>>

EncoderOutcomes == {"success", "failure", "raised"}

----------------------------------------------------------------------------
Next ==
    \/ \E d \in {Interval} : Advance(d)
    \/ run_top
    \/ run_sleep
    \/ tick_capture_failed
    \/ tick_capture_and_classify
    \/ \E w \in DOMAIN workers, result \in ClassifierReturns : classify_and_save(w, result)
    \/ \E k \in DOMAIN gens : generate_5min_begin(k)
    \/ \E k \in DOMAIN gens : generate_5min_empty(k)
    \/ \E k \in DOMAIN gens, text \in SummarizerReturns : generate_5min_summarize(k, text)
    \/ \E k \in DOMAIN gens, stored \in BOOLEAN : generate_5min_save(k, stored)
    \/ \E k \in DOMAIN gens : generate_5min_advance(k)
    \/ \E k \in DOMAIN gens : generate_hourly_begin(k)
    \/ \E k \in DOMAIN gens : generate_hourly_empty(k)
    \/ \E k \in DOMAIN gens, text \in SummarizerReturns : generate_hourly_summarize(k, text)
    \/ \E k \in DOMAIN gens, written \in BOOLEAN : generate_hourly_stage(k, written)
    \/ \E k \in DOMAIN gens, outcome \in EncoderOutcomes : generate_hourly_encode(k, outcome)
    \/ \E k \in DOMAIN gens, stored \in BOOLEAN : generate_hourly_save(k, stored)
    \/ \E k \in DOMAIN gens : generate_hourly_cleanup(k)
    \/ \E k \in DOMAIN gens : generate_hourly_advance(k)

Spec == Init /\ [][Next]_vars

----------------------------------------------------------------------------
(* Thinning harness: cleanup_screenshots_except_thumbnails applied, as the  *)
(* hourly generation applies it, to the range [last_hourly_summary, clock)  *)
(* of a captures table drawn from a bounded set of tables.                  *)

ThinOffsets == {0 - Interval, 0, Interval, Period5min, Period5min + Interval, PeriodHourly}
ThinTimes == {StartTime - PeriodHourly + d : d \in ThinOffsets}

\* the tables save_capture can have built: ids in insertion order, a
\* screenshot that is PNG bytes or b"" (the column is NOT NULL)
ThinRow(i, ts, shot) ==
    [id |-> i, timestamp |-> ts, screenshot |-> shot,
     description |-> IF shot = PNG THEN "description" ELSE NULL,
     classification_error |-> IF shot = PNG THEN NULL ELSE "Screenshot capture failed",
     labels |-> {}]

ThinTables ==
    UNION {{ {ThinRow(i, f[i][1], f[i][2]) : i \in 1..n}
             : f \in [1..n -> ThinTimes \X {PNG, EMPTY}] } : n \in 0..MaxThinRows}

InitThin ==
    /\ ProcessUp
    /\ clock = StartTime
    /\ running = FALSE
    /\ iteration = 0
    /\ next_capture_time = StartTime
    /\ loop_pc = "thin"
    /\ captures \in ThinTables
    /\ labels = {}
    /\ summaries = {}
    /\ last_5min_summary = StartTime
    /\ last_hourly_summary = StartTime - PeriodHourly
    /\ workers = <<>>
    /\ gens = <<>>
    /\ HarnessIdle

\* one application; a raised IntegrityError leaves the table as it was
thin_apply ==
    /\ thin_runs < MaxThinRuns
    /\ captures' = cleanup_screenshots_except_thumbnails(
                       captures, last_hourly_summary, clock).rows
    /\ thin_runs' = thin_runs + 1
    /\ UNCHANGED <<clock, loop_vars, labels, summaries, last_5min_summary,
                   last_hourly_summary, workers, gens, calls, returned, proc_vars>>

NextThin == thin_apply

SpecThin == InitThin /\ [][NextThin]_vars

----------------------------------------------------------------------------
(* Label harness: get_or_create_label called from several threads that     *)
(* share the connection, one action per SQL statement.                     *)

LabelNames == {"coding", "browsing"}

InitLabels ==
    /\ InitDaemon
    /\ HarnessIdle

Started == DOMAIN calls \cup DOMAIN returned

\* a thread enters get_or_create_label(label_name)
label_call(name) ==
    /\ Cardinality(Started) < MaxCalls
    /\ calls' = [c \in DOMAIN calls \cup {Cardinality(Started) + 1} |->
                   IF c \in DOMAIN calls THEN calls[c]
                   ELSE [name |-> name, pc |-> "select", id |-> 0]]
    /\ UNCHANGED <<clock, loop_vars, store_vars, last_5min_summary,
                   last_hourly_summary, workers, gens, returned, thin_runs, proc_vars>>

Return(c, id, raised) ==
    /\ returned' = [x \in DOMAIN returned \cup {c} |->
                      IF x = c THEN [name |-> calls[c].name, id |-> id, raised |-> raised]
                      ELSE returned[x]]
    /\ calls' = Drop(calls, c)

\* SELECT id FROM labels WHERE name = ?; row = cursor.fetchone()
label_select(c) ==
    /\ c \in DOMAIN calls /\ calls[c].pc = "select"
    /\ LET row == select_label(labels, calls[c].name)
       IN calls' = [calls EXCEPT ![c] =
                      IF row # {} THEN [@ EXCEPT !.pc = "update",
                                                 !.id = (CHOOSE l \in row : TRUE).id]
                                  ELSE [@ EXCEPT !.pc = "insert"]]
    /\ UNCHANGED <<clock, loop_vars, store_vars, last_5min_summary,
                   last_hourly_summary, workers, gens, returned, thin_runs, proc_vars>>

\* "if row": UPDATE labels SET last_used = ?; return row['id']
label_update(c) ==
    /\ c \in DOMAIN calls /\ calls[c].pc = "update"
    /\ labels' = update_last_used(labels, calls[c].id, clock)
    /\ Return(c, calls[c].id, FALSE)
    /\ UNCHANGED <<clock, loop_vars, captures, summaries, last_5min_summary,
                   last_hourly_summary, workers, gens, thin_runs, proc_vars>>

\* INSERT INTO labels (name) VALUES (?); return cursor.lastrowid, or the
\* IntegrityError of the UNIQUE column leaves the call
label_insert(c) ==
    /\ c \in DOMAIN calls /\ calls[c].pc = "insert"
    /\ LET ins == insert_label(labels, calls[c].name, clock)
       IN /\ labels' = ins.rows
          /\ Return(c, ins.id, ins.raised)
    /\ UNCHANGED <<clock, loop_vars, captures, summaries, last_5min_summary,
                   last_hourly_summary, workers, gens, thin_runs, proc_vars>>

NextLabels ==
    \/ \E d \in {Interval} : Advance(d)
    \/ \E name \in LabelNames : label_call(name)
    \/ \E c \in DOMAIN calls : label_select(c)
    \/ \E c \in DOMAIN calls : label_update(c)
    \/ \E c \in DOMAIN calls : label_insert(c)

SpecLabels == InitLabels /\ [][NextLabels]_vars

----------------------------------------------------------------------------
(* Save harness: save_capture called with labels by several classification  *)
(* threads that share the connection, one action per SQL statement that     *)
(* another thread can interleave with.  The tables are what the shared      *)
(* connection sees: a row inserted by a thread whose call raised later is   *)
(* committed by the next commit of any thread.                              *)

\* the label lists of successful classifications
SaveLabels == {<<"coding">>, <<"coding", "browsing">>}

\* the capture time of the tick that started thread w
SaveTime(w) == StartTime + (w - 1) * Interval

InitSave ==
    /\ InitDaemon
    /\ HarnessIdle

Savers == DOMAIN workers \cup DOMAIN returned

\* _classify_and_save with result["success"]: save_capture executes INSERT
\* INTO captures and reads cursor.lastrowid
save_capture_insert(names) ==
    /\ Cardinality(Savers) < MaxSavers
    /\ LET w == Cardinality(Savers) + 1
           row == capture_row(captures, SaveTime(w), PNG, "description", NULL, {})
       IN /\ captures' = captures \cup {row}
          /\ workers' = [x \in DOMAIN workers \cup {w} |->
                           IF x \in DOMAIN workers THEN workers[x]
                           ELSE [timestamp |-> SaveTime(w), labels |-> names,
                                 capture_id |-> row.id, rest |-> names,
                                 pc |-> "select", id |-> 0]]
    /\ UNCHANGED <<clock, loop_vars, labels, summaries, last_5min_summary,
                   last_hourly_summary, gens, harness_vars, proc_vars>>

\* the thread leaves save_capture: by "return capture_id" after the commit or
\* by the exception that _classify_and_save catches and prints
SaveReturn(w, raised) ==
    /\ returned' = [x \in DOMAIN returned \cup {w} |->
                      IF x = w THEN [timestamp |-> workers[w].timestamp,
                                     labels |-> workers[w].labels,
                                     raised |-> raised]
                      ELSE returned[x]]
    /\ workers' = Drop(workers, w)

\* INSERT OR IGNORE INTO captures_labels (capture_id, label_id), then the next
\* label_name of the loop, or self.conn.commit() and the return
SaveLink(w, label_id) ==
    /\ captures' = {IF c.id = workers[w].capture_id
                    THEN [c EXCEPT !.labels = @ \cup {label_id}] ELSE c : c \in captures}
    /\ IF Tail(workers[w].rest) = <<>>
       THEN SaveReturn(w, FALSE)
       ELSE /\ workers' = [workers EXCEPT ![w] =
                              [@ EXCEPT !.rest = Tail(@), !.pc = "select", !.id = 0]]
            /\ returned' = returned

\* get_or_create_label: SELECT id FROM labels WHERE name = ?; fetchone()
save_capture_select(w) ==
    /\ w \in DOMAIN workers /\ workers[w].pc = "select"
    /\ LET row == select_label(labels, Head(workers[w].rest))
       IN workers' = [workers EXCEPT ![w] =
                        IF row # {} THEN [@ EXCEPT !.pc = "update",
                                                   !.id = (CHOOSE l \in row : TRUE).id]
                                    ELSE [@ EXCEPT !.pc = "insert"]]
    /\ UNCHANGED <<clock, loop_vars, store_vars, last_5min_summary,
                   last_hourly_summary, gens, harness_vars, proc_vars>>

\* get_or_create_label, "if row": UPDATE labels SET last_used; commit; return
save_capture_update(w) ==
    /\ w \in DOMAIN workers /\ workers[w].pc = "update"
    /\ labels' = update_last_used(labels, workers[w].id, clock)
    /\ SaveLink(w, workers[w].id)
    /\ UNCHANGED <<clock, loop_vars, summaries, last_5min_summary,
                   last_hourly_summary, gens, calls, thin_runs, proc_vars>>

\* get_or_create_label: INSERT INTO labels (name); commit; return lastrowid.
\* The IntegrityError of the UNIQUE column leaves save_capture with the
\* captures row inserted and the remaining labels not attached
save_capture_create(w) ==
    /\ w \in DOMAIN workers /\ workers[w].pc = "insert"
    /\ LET ins == insert_label(labels, Head(workers[w].rest), clock)
       IN /\ labels' = ins.rows
          /\ IF ins.raised
             THEN /\ captures' = captures
                  /\ SaveReturn(w, TRUE)
             ELSE SaveLink(w, ins.id)
    /\ UNCHANGED <<clock, loop_vars, summaries, last_5min_summary,
                   last_hourly_summary, gens, calls, thin_runs, proc_vars>>

NextSave ==
    \/ \E d \in {Interval} : Advance(d)
    \/ \E names \in SaveLabels : save_capture_insert(names)
    \/ \E w \in DOMAIN workers : save_capture_select(w)
    \/ \E w \in DOMAIN workers : save_capture_update(w)
    \/ \E w \in DOMAIN workers : save_capture_create(w)

SpecSave == InitSave /\ [][NextSave]_vars

----------------------------------------------------------------------------
(* Summarizer harness: the daemon on a database whose latest hourly rollup  *)
(* ended one interval before the start, so that only 5min generations run,  *)
(* with generate_5min_summary computed from the response of the API.  The   *)
(* response of the run is drawn at the start and held in calls.             *)

\* str.strip() on a text given as its words, " " being a run of whitespace
Whitespace == {" "}

RECURSIVE lstrip(_)
lstrip(text) ==
    IF text # <<>> /\ Head(text) \in Whitespace THEN lstrip(Tail(text)) ELSE text

RECURSIVE rstrip(_)
rstrip(text) ==
    IF text # <<>> /\ text[Len(text)] \in Whitespace
    THEN rstrip(SubSeq(text, 1, Len(text) - 1)) ELSE text

strip(text) == rstrip(lstrip(text))

\* response.output_text of a completed response: a summary, a short one, one
\* that quotes the error marker at its start (bare or after whitespace), or
\* the empty string
OutputTexts ==
    {GenuineSummary, <<"Idle">>, <<"Idle", " ">>,
     <<ErrorPrefix, "shown", "in", "a", "terminal">>,
     <<" ", ErrorPrefix, "shown", "in", "a", "terminal">>,
     <<>>}

\* what self.client.responses.create(...) does: it raises, or returns a
\* response with a status, possibly a refusal, and an output_text
ApiResponse(raised, status, refusal, output_text) ==
    [raised |-> raised, status |-> status, refusal |-> refusal,
     output_text |-> output_text]

ApiResponses ==
    {ApiResponse(TRUE, "none", FALSE, <<>>),
     ApiResponse(FALSE, "failed", FALSE, <<>>),
     ApiResponse(FALSE, "completed", TRUE, <<>>)}
    \cup {ApiResponse(FALSE, "completed", FALSE, text) : text \in OutputTexts}

\* generate_5min_summary(captures): the text it returns
generate_5min_summary(caps, response) ==
    IF caps = {} THEN <<"No activity captured in this period.">>
    ELSE IF response.raised THEN <<ErrorPrefix, "exception and traceback">>
    ELSE IF response.status # "completed" THEN ErrorSummary
    ELSE IF response.refusal THEN <<ErrorPrefix, "refusal">>
    ELSE IF response.output_text = <<>>
    THEN <<ErrorPrefix, "API returned empty content">>
    ELSE strip(response.output_text)

\* the latest hourly rollup of the earlier run
PriorHourly ==
    {[id |-> 1, summary_type |-> "hourly", start_time |-> StartTime - Interval - PeriodHourly,
      end_time |-> StartTime - Interval, content |-> GenuineSummary,
      video_path |-> NoVideo]}

InitSummarize ==
    /\ ProcessUp
    /\ clock = StartTime
    /\ running = TRUE
    /\ iteration = 0
    /\ next_capture_time = StartTime
    /\ loop_pc = "top"
    /\ captures = {}
    /\ labels = {}
    /\ summaries = PriorHourly
    /\ last_5min_summary = seed_watermark(summaries, "5min", clock, Period5min)
    /\ last_hourly_summary = seed_watermark(summaries, "hourly", clock, PeriodHourly)
    /\ workers = <<>>
    /\ gens = <<>>
    /\ calls \in {<<response>> : response \in ApiResponses}
    /\ returned = <<>>
    /\ thin_runs = 0

\* the summarize step of thread k under the response of this run
generate_5min_call(k) ==
    /\ k \in DOMAIN gens
    /\ generate_5min_summarize(k,
           generate_5min_summary(get_captures_since(captures, gens[k].start_time),
                                 calls[1]))

NextSummarize ==
    \/ \E d \in {Interval} : Advance(d)
    \/ run_top
    \/ run_sleep
    \/ tick_capture_failed
    \/ tick_capture_and_classify
    \/ \E w \in DOMAIN workers, result \in ClassifierReturns : classify_and_save(w, result)
    \/ \E k \in DOMAIN gens : generate_5min_begin(k)
    \/ \E k \in DOMAIN gens : generate_5min_empty(k)
    \/ \E k \in DOMAIN gens : generate_5min_call(k)
    \/ \E k \in DOMAIN gens, stored \in BOOLEAN : generate_5min_save(k, stored)
    \/ \E k \in DOMAIN gens : generate_5min_advance(k)

SpecSummarize == InitSummarize /\ [][NextSummarize]_vars

----------------------------------------------------------------------------
(* Video harness: the video block of the hourly generation applied to the   *)
(* captures since last_hourly_summary of a table drawn from a bounded set,  *)
(* with the staged files that are still found and the outcome of ffmpeg     *)
(* drawn at the call.  The result is held in returned.                      *)

InitVideo ==
    /\ InitThin

\* captures = get_captures_since(start_time, True); "if captures": the frames
\* are staged and the "try" of the video block runs
video_apply(found, outcome) ==
    /\ returned = <<>>
    /\ LET frames == {c.id : c \in staged_frames(captures, last_hourly_summary)}
           exists == frames \cap found
           v == video_block(frames, exists, last_hourly_summary, outcome)
       IN returned' = <<[captures |-> {c.id : c \in get_captures_since(
                                                    captures, last_hourly_summary)},
                         frames |-> frames, exists |-> exists,
                         video_path |-> v.video_path, raised |-> v.raised,
                         encoder_runs |-> v.encoder_runs]>>
    /\ UNCHANGED <<clock, loop_vars, store_vars, last_5min_summary,
                   last_hourly_summary, workers, gens, calls, thin_runs, proc_vars>>

NextVideo ==
    \E found \in SUBSET (1..MaxThinRows), outcome \in EncoderOutcomes :
        video_apply(found, outcome)

SpecVideo == InitVideo /\ [][NextVideo]_vars

----------------------------------------------------------------------------
(* The process from its start: main() constructs the daemon on the database *)
(* of an earlier run, run() starts the tick loop, SIGINT or SIGTERM calls   *)
(* stop().  The latest 5min rollup of the earlier run ended one interval    *)
(* before the start, so that no 5min generation is due within the ticks     *)
(* that are explored and only hourly generations run.                       *)

\* the captures of the earlier run: up to two samples of one 5-minute bucket
PriorTimes == {StartTime - Period5min, StartTime - Period5min + Interval}

PriorTables ==
    {{}} \cup
    {{ThinRow(1, t, shot)} : t \in PriorTimes, shot \in {PNG, EMPTY}} \cup
    {{ThinRow(1, p[1], PNG), ThinRow(2, p[2], shot)} :
        p \in {q \in PriorTimes \X PriorTimes : q[1] < q[2]}, shot \in {PNG, EMPTY}}

\* the 5min rollups of the earlier run: one row ending at StartTime - Interval,
\* of a regular window or of a window widened by retries to before the hour
PriorSummaries ==
    {{[id |-> 1, summary_type |-> "5min", start_time |-> start,
       end_time |-> StartTime - Interval, content |-> GenuineSummary,
       video_path |-> NoVideo]}
     : start \in {StartTime - Interval - Period5min, StartTime - Interval - PeriodHourly}}

InitRestart ==
    /\ clock = StartTime
    /\ running = FALSE
    /\ iteration = 0
    /\ next_capture_time = 0
    /\ loop_pc = "new"
    /\ captures \in PriorTables
    /\ labels = {}
    /\ summaries \in PriorSummaries
    /\ last_5min_summary = 0
    /\ last_hourly_summary = 0
    /\ workers = <<>>
    /\ gens = <<>>
    /\ HarnessIdle
    /\ db_open = FALSE
    /\ temp_files = {}
    /\ available \in SUBSET Requirements
    /\ exit_status = <<>>

\* __init__ as it would be if a missing ffmpeg only printed a warning
daemon_init_skip_encoder ==
    /\ loop_pc = "new"
    /\ IF {"grim", "api_key"} \subseteq available
       THEN /\ db_open' = TRUE
            /\ last_5min_summary' = seed_watermark(summaries, "5min", clock, Period5min)
            /\ last_hourly_summary' = seed_watermark(summaries, "hourly", clock, PeriodHourly)
            /\ loop_pc' = "constructed"
            /\ exit_status' = exit_status
       ELSE /\ exit_status' = <<1>>
            /\ loop_pc' = "exited"
            /\ UNCHANGED <<db_open, last_5min_summary, last_hourly_summary>>
    /\ UNCHANGED <<clock, running, iteration, next_capture_time, store_vars,
                   workers, gens, harness_vars, temp_files, available>>

\* __init__: GrimCapture(), ScreenshotClassifier(), SummaryGenerator() and
\* VideoGenerator() raise when grim, the API key or ffmpeg is missing and
\* __init__ calls sys.exit(1); otherwise the database is opened and both
\* watermarks are seeded
daemon_init ==
    /\ loop_pc = "new"
    /\ IF available = Requirements
       THEN /\ db_open' = TRUE
            /\ last_5min_summary' = seed_watermark(summaries, "5min", clock, Period5min)
            /\ last_hourly_summary' = seed_watermark(summaries, "hourly", clock, PeriodHourly)
            /\ loop_pc' = "constructed"
            /\ exit_status' = exit_status
       ELSE /\ exit_status' = <<1>>
            /\ loop_pc' = "exited"
            /\ UNCHANGED <<db_open, last_5min_summary, last_hourly_summary>>
    /\ UNCHANGED <<clock, running, iteration, next_capture_time, store_vars,
                   workers, gens, harness_vars, temp_files, available>>

\* run(): self.running = True; stats = self.db.get_statistics(), which raises
\* out of run() when the connection is closed already; iteration = 0;
\* next_capture_time = time.time()
run_start ==
    /\ loop_pc = "constructed"
    /\ running' = TRUE
    /\ IF db_open
       THEN /\ iteration' = 0
            /\ next_capture_time' = clock
            /\ loop_pc' = "top"
            /\ exit_status' = exit_status
       ELSE /\ exit_status' = <<1>>
            /\ loop_pc' = "exited"
            /\ UNCHANGED <<iteration, next_capture_time>>
    /\ UNCHANGED <<clock, store_vars, last_5min_summary, last_hourly_summary,
                   workers, gens, harness_vars, db_open, temp_files, available>>

\* _signal_handler -> stop(): self.running = False; self.db.close().  The
\* handler runs in the main thread between two of its steps; the first signal
\* is the one that is modelled
stop ==
    /\ loop_pc \in {"constructed", "top", "sleep", "tick"}
    /\ db_open
    /\ running' = FALSE
    /\ db_open' = FALSE
    /\ UNCHANGED <<clock, iteration, next_capture_time, loop_pc, store_vars,
                   last_5min_summary, last_hourly_summary, workers, gens,
                   harness_vars, temp_files, available, exit_status>>

\* "while self.running" is false: run() and main() return and the process
\* exits; the threads are daemon threads and end where they are
run_exit ==
    /\ loop_pc = "top"
    /\ ~running
    /\ loop_pc' = "exited"
    /\ exit_status' = <<0>>
    /\ UNCHANGED <<clock, running, iteration, next_capture_time, store_vars,
                   last_5min_summary, last_hourly_summary, workers, gens,
                   harness_vars, db_open, temp_files, available>>

\* _classify_and_save on the closed connection: get_all_labels raises and the
\* thread ends in "except Exception"
classify_db_closed(w) ==
    /\ Alive /\ ~db_open
    /\ w \in DOMAIN workers
    /\ workers' = Drop(workers, w)
    /\ UNCHANGED <<clock, loop_vars, store_vars, last_5min_summary,
                   last_hourly_summary, gens, harness_vars, proc_vars>>

\* a generation thread at a call of the store on the closed connection: the
\* call raises and the thread ends in "except Exception"
generate_db_closed(k) ==
    /\ Alive /\ ~db_open
    /\ k \in DOMAIN gens
    /\ gens[k].pc \in {"fetch", "video", "save", "cleanup"}
    /\ EndGen(k)
    /\ UNCHANGED <<clock, loop_vars, store_vars, last_5min_summary,
                   last_hourly_summary, workers, harness_vars, proc_vars>>

\* the steps of the hourly generation thread k
generate_hourly(k) ==
    \/ generate_hourly_begin(k)
    \/ generate_hourly_empty(k)
    \/ \E text \in SummarizerReturns : generate_hourly_summarize(k, text)
    \/ \E written \in BOOLEAN : generate_hourly_stage(k, written)
    \/ \E outcome \in EncoderOutcomes : generate_hourly_encode(k, outcome)
    \/ \E stored \in BOOLEAN : generate_hourly_save(k, stored)
    \/ generate_hourly_cleanup(k)
    \/ generate_hourly_advance(k)
    \/ generate_db_closed(k)

NextRestart ==
    \/ daemon_init
    \/ run_start
    \/ stop
    \/ run_exit
    \/ \E d \in {Interval} : Advance(d)
    \/ run_top
    \/ run_sleep
    \/ tick_capture_failed
    \/ tick_capture_and_classify
    \/ \E w \in DOMAIN workers, result \in ClassifierReturns : classify_and_save(w, result)
    \/ \E w \in DOMAIN workers : classify_db_closed(w)
    \/ \E k \in DOMAIN gens : generate_hourly(k)

SpecRestart == InitRestart /\ [][NextRestart]_vars

\* every started thread that can take a step eventually takes one, and so
\* does the main thread
HourlyThreads == {<<"hourly", i>> : i \in 1..MaxTicks}

FairRestart ==
    /\ WF_vars(daemon_init \/ run_start \/ run_top \/ run_sleep \/ run_exit
               \/ tick_capture_failed \/ tick_capture_and_classify)
    /\ \A k \in HourlyThreads : WF_vars(generate_hourly(k))

SpecRestartFair == SpecRestart /\ FairRestart

----------------------------------------------------------------------------
(* Seeding harness: the process from main() on the database of an earlier   *)
(* run whose latest hourly rollup ended one interval before the start, so   *)
(* that only 5min generations run; the clock can also move on by a whole    *)
(* 5-minute period, which makes a second generation due.                    *)

\* the captures of the earlier run: none, or one Sample after its last rollup
PriorSeedTables == {{}, {ThinRow(1, StartTime - Period5min + Interval, PNG)}}

\* a 5min rollup of the earlier run
Prior5min(id, start_time) ==
    [id |-> id, summary_type |-> "5min", start_time |-> start_time,
     end_time |-> start_time + Period5min, content |-> GenuineSummary,
     video_path |-> NoVideo]

\* the rollups of the earlier run: the hourly one and no 5min rollup, one or
\* two that ended a period before the start, or one that ended just before it
PriorSeedSummaries ==
    {PriorHourly \cup rows :
        rows \in {{},
                  {Prior5min(2, StartTime - 2 * Period5min)},
                  {Prior5min(2, StartTime - 3 * Period5min),
                   Prior5min(3, StartTime - 2 * Period5min)},
                  {Prior5min(2, StartTime - Interval - Period5min)}}}

InitSeed ==
    /\ clock = StartTime
    /\ running = FALSE
    /\ iteration = 0
    /\ next_capture_time = 0
    /\ loop_pc = "new"
    /\ captures \in PriorSeedTables
    /\ labels = {}
    /\ summaries \in PriorSeedSummaries
    /\ last_5min_summary = 0
    /\ last_hourly_summary = 0
    /\ workers = <<>>
    /\ gens = <<>>
    /\ HarnessIdle
    /\ db_open = FALSE
    /\ temp_files = {}
    /\ available = Requirements
    /\ exit_status = <<>>

NextSeed ==
    \/ daemon_init
    \/ run_start
    \/ \E d \in {Interval, Period5min} : Advance(d)
    \/ run_top
    \/ run_sleep
    \/ tick_capture_failed
    \/ tick_capture_and_classify
    \/ \E w \in DOMAIN workers, result \in ClassifierReturns : classify_and_save(w, result)
    \/ \E k \in DOMAIN gens : generate_5min_begin(k)
    \/ \E k \in DOMAIN gens : generate_5min_empty(k)
    \/ \E k \in DOMAIN gens, text \in SummarizerReturns : generate_5min_summarize(k, text)
    \/ \E k \in DOMAIN gens, stored \in BOOLEAN : generate_5min_save(k, stored)
    \/ \E k \in DOMAIN gens : generate_5min_advance(k)

SpecSeed == InitSeed /\ [][NextSeed]_vars

----------------------------------------------------------------------------
(* Lag harness: the daemon on a database whose latest hourly rollup ended   *)
(* one interval before the start, so that only 5min generations run.  The   *)
(* captures each persisted 5min rollup was generated from are noted in      *)
(* returned, under the id of its row.                                       *)

InitLag ==
    /\ ProcessUp
    /\ clock = StartTime
    /\ running = TRUE
    /\ iteration = 0
    /\ next_capture_time = StartTime
    /\ loop_pc = "top"
    /\ captures = {}
    /\ labels = {}
    /\ summaries = PriorHourly
    /\ last_5min_summary = seed_watermark(summaries, "5min", clock, Period5min)
    /\ last_hourly_summary = seed_watermark(summaries, "hourly", clock, PeriodHourly)
    /\ workers = <<>>
    /\ gens = <<>>
    /\ HarnessIdle

\* save_summary('5min', start_time, now, summary) of the summary that was
\* generated from the captures fetched by get_captures_since(start_time)
generate_5min_save_src(k, stored) ==
    /\ At(k, "5min", "save")
    /\ db_open
    /\ IF stored
       THEN /\ summaries' = save_summary(summaries, "5min", gens[k].start_time,
                                         gens[k].now, gens[k].summary, NoVideo)
            /\ returned' = [i \in DOMAIN returned \cup {NextId(summaries)} |->
                              IF i \in DOMAIN returned THEN returned[i] ELSE gens[k].src]
            /\ SetGen(k, [gens[k] EXCEPT !.pc = "advance"])
       ELSE /\ summaries' = summaries
            /\ returned' = returned
            /\ EndGen(k)
    /\ UNCHANGED <<clock, loop_vars, captures, labels, last_5min_summary,
                   last_hourly_summary, workers, calls, thin_runs, proc_vars>>

NextLag ==
    \/ \E d \in {Interval} : Advance(d)
    \/ run_top
    \/ run_sleep
    \/ tick_capture_failed
    \/ tick_capture_and_classify
    \/ \E w \in DOMAIN workers, result \in ClassifierReturns : classify_and_save(w, result)
    \/ \E k \in DOMAIN gens : generate_5min_begin(k)
    \/ \E k \in DOMAIN gens : generate_5min_empty(k)
    \/ \E k \in DOMAIN gens, text \in SummarizerReturns : generate_5min_summarize(k, text)
    \/ \E k \in DOMAIN gens, stored \in BOOLEAN : generate_5min_save_src(k, stored)
    \/ \E k \in DOMAIN gens : generate_5min_advance(k)

SpecLag == InitLag /\ [][NextLag]_vars

----------------------------------------------------------------------------
(* Rollup harness: the daemon on a database that holds one 5min rollup of   *)
(* an earlier run and no hourly rollup, so that an hourly generation is due *)
(* at the first tick and a 5min generation at the second.  The 5min rollups *)
(* each persisted hourly rollup was generated from are noted in returned,   *)
(* under the id of its row.                                                 *)

\* the 5min rollup of the earlier run: it ended one interval less than a period before the start
PriorLatest5min == {Prior5min(1, StartTime + Interval - 2 * Period5min)}

InitRollup ==
    /\ ProcessUp
    /\ clock = StartTime
    /\ running = TRUE
    /\ iteration = 0
    /\ next_capture_time = StartTime
    /\ loop_pc = "top"
    /\ captures = {}
    /\ labels = {}
    /\ summaries = PriorLatest5min
    /\ last_5min_summary = seed_watermark(summaries, "5min", clock, Period5min)
    /\ last_hourly_summary = seed_watermark(summaries, "hourly", clock, PeriodHourly)
    /\ workers = <<>>
    /\ gens = <<>>
    /\ HarnessIdle

\* save_summary('hourly', start_time, now, summary, video_path) of the summary
\* that was generated from the rows fetched by get_summaries_in_range('5min',
\* start_time, now)
generate_hourly_save_src(k, stored) ==
    /\ At(k, "hourly", "save")
    /\ db_open
    /\ IF stored
       THEN /\ summaries' = save_summary(summaries, "hourly", gens[k].start_time,
                                  gens[k].now, gens[k].summary, gens[k].video_path)
            /\ returned' = [i \in DOMAIN returned \cup {NextId(summaries)} |->
                              IF i \in DOMAIN returned THEN returned[i] ELSE gens[k].src]
            /\ SetGen(k, [gens[k] EXCEPT !.pc = "cleanup"])
       ELSE /\ summaries' = summaries
            /\ returned' = returned
            /\ EndGen(k)
    /\ UNCHANGED <<clock, loop_vars, captures, labels, last_5min_summary,
                   last_hourly_summary, workers, calls, thin_runs, proc_vars>>

NextRollup ==
    \/ \E d \in {Interval} : Advance(d)
    \/ run_top
    \/ run_sleep
    \/ tick_capture_failed
    \/ tick_capture_and_classify
    \/ \E w \in DOMAIN workers, result \in ClassifierReturns : classify_and_save(w, result)
    \/ \E k \in DOMAIN gens : generate_5min_begin(k)
    \/ \E k \in DOMAIN gens : generate_5min_empty(k)
    \/ \E k \in DOMAIN gens, text \in SummarizerReturns : generate_5min_summarize(k, text)
    \/ \E k \in DOMAIN gens, stored \in BOOLEAN : generate_5min_save(k, stored)
    \/ \E k \in DOMAIN gens : generate_5min_advance(k)
    \/ \E k \in DOMAIN gens : generate_hourly_begin(k)
    \/ \E k \in DOMAIN gens : generate_hourly_empty(k)
    \/ \E k \in DOMAIN gens, text \in SummarizerReturns : generate_hourly_summarize(k, text)
    \/ \E k \in DOMAIN gens, written \in BOOLEAN : generate_hourly_stage(k, written)
    \/ \E k \in DOMAIN gens, outcome \in EncoderOutcomes : generate_hourly_encode(k, outcome)
    \/ \E k \in DOMAIN gens, stored \in BOOLEAN : generate_hourly_save_src(k, stored)
    \/ \E k \in DOMAIN gens : generate_hourly_cleanup(k)
    \/ \E k \in DOMAIN gens : generate_hourly_advance(k)

SpecRollup == InitRollup /\ [][NextRollup]_vars

----------------------------------------------------------------------------
(* Backfill harness: backfill_summaries.py run, with the daemon not running, *)
(* on a captures table drawn from a bounded set.  The position of the       *)
(* script and its current_time are held in calls; the response of the API   *)
(* is drawn at each call of the Summarizer.                                 *)

Min(S) == CHOOSE x \in S : \A y \in S : x <= y

\* generate_hourly_summary(five_min_summaries): the text it returns
generate_hourly_summary(five_min_summaries, response) ==
    IF five_min_summaries = {} THEN <<"No activity captured in this hour.">>
    ELSE IF response.raised THEN <<ErrorPrefix, "exception and traceback">>
    ELSE IF response.status # "completed" THEN ErrorSummary
    ELSE IF response.refusal THEN <<ErrorPrefix, "refusal">>
    ELSE IF response.output_text = <<>>
    THEN <<ErrorPrefix, "API returned empty content">>
    ELSE strip(response.output_text)

\* the captures tables the script is run on: classified Samples at some of
\* four capture times that span two 5-minute windows
BackfillTimes ==
    {StartTime - 2 * Period5min, StartTime - Period5min,
     StartTime - Period5min + Interval, StartTime}

BackfillTables ==
    {{ThinRow(1 + Cardinality({u \in times : u < t}), t, PNG) : t \in times}
     : times \in SUBSET BackfillTimes}

BackfillAt(pc, current_time) == <<[pc |-> pc, current_time |-> current_time]>>

InitBackfill ==
    /\ ProcessUp
    /\ clock = StartTime + Interval
    /\ running = FALSE
    /\ iteration = 0
    /\ next_capture_time = 0
    /\ loop_pc = "backfill"
    /\ captures \in BackfillTables
    /\ labels = {}
    /\ summaries = {}
    /\ last_5min_summary = 0
    /\ last_hourly_summary = 0
    /\ workers = <<>>
    /\ gens = <<>>
    /\ calls = BackfillAt("start", 0)
    /\ returned = <<>>
    /\ thin_runs = 0

\* SELECT MIN(timestamp), MAX(timestamp) FROM captures
first_capture(caps) == Min({c.timestamp : c \in caps})
last_capture(caps) == Max({c.timestamp : c \in caps})

\* WHERE timestamp >= ? AND timestamp < ? of the 5-minute loop
backfill_window(caps, current_time, end_time) ==
    {c \in caps : c.timestamp >= current_time /\ c.timestamp < end_time}

\* the script up to its first loop: no capture, or an answer other than "y",
\* closes the database and returns
backfill_start(answer) ==
    /\ calls[1].pc = "start"
    /\ IF captures = {} \/ answer # "y"
       THEN /\ db_open' = FALSE
            /\ calls' = BackfillAt("done", 0)
       ELSE /\ db_open' = db_open
            /\ calls' = BackfillAt("5min", first_capture(captures))
    /\ UNCHANGED <<clock, loop_vars, store_vars, last_5min_summary,
                   last_hourly_summary, workers, gens, returned, thin_runs,
                   temp_files, available, exit_status>>

\* one pass of "while current_time < last_capture" of the 5-minute loop: the
\* summary of a window that holds captures is saved as it is returned
backfill_5min(response) ==
    /\ calls[1].pc = "5min"
    /\ LET current_time == calls[1].current_time
           end_time == current_time + Period5min
           caps == backfill_window(captures, current_time, end_time)
       IN IF current_time < last_capture(captures)
          THEN /\ summaries' = IF caps # {}
                               THEN save_summary(summaries, "5min", current_time, end_time,
                                        generate_5min_summary(caps, response), NoVideo)
                               ELSE summaries
               /\ calls' = BackfillAt("5min", end_time)
          ELSE /\ summaries' = summaries
               /\ calls' = BackfillAt("hourly", first_capture(captures))
    /\ UNCHANGED <<clock, loop_vars, captures, labels, last_5min_summary,
                   last_hourly_summary, workers, gens, returned, thin_runs, proc_vars>>

\* one pass of "while current_time < last_capture" of the hourly loop; after
\* the loop db.close()
backfill_hourly(response) ==
    /\ calls[1].pc = "hourly"
    /\ LET current_time == calls[1].current_time
           end_time == current_time + PeriodHourly
           five_min_summaries == get_summaries_in_range(summaries, "5min",
                                                        current_time, end_time)
       IN IF current_time < last_capture(captures)
          THEN /\ summaries' = IF five_min_summaries # {}
                               THEN save_summary(summaries, "hourly", current_time, end_time,
                                        generate_hourly_summary(five_min_summaries, response),
                                        NoVideo)
                               ELSE summaries
               /\ calls' = BackfillAt("hourly", end_time)
               /\ db_open' = db_open
          ELSE /\ summaries' = summaries
               /\ calls' = BackfillAt("done", 0)
               /\ db_open' = FALSE
    /\ UNCHANGED <<clock, loop_vars, captures, labels, last_5min_summary,
                   last_hourly_summary, workers, gens, returned, thin_runs,
                   temp_files, available, exit_status>>

NextBackfill ==
    \/ \E answer \in {"y", "n"} : backfill_start(answer)
    \/ \E response \in ApiResponses : backfill_5min(response)
    \/ \E response \in ApiResponses : backfill_hourly(response)

SpecBackfill == InitBackfill /\ [][NextBackfill]_vars

----------------------------------------------------------------------------
(* Cycle harness: the save_capture call of each capture cycle, made by the  *)
(* tick loop (capture failed) or by the classification thread of the cycle  *)
(* (classification failed or succeeded), all on the one connection opened   *)
(* with check_same_thread=False and used without a lock.  One action per    *)
(* SQL statement; a statement executed while another thread is inside       *)
(* save_capture on the same connection is a data race of the sqlite3        *)
(* module, whose outcomes are the row inserted or an OperationalError.      *)

\* the arguments of the three save_capture calls of a cycle
CycleSaves ==
    {[screenshot |-> EMPTY, description |-> NULL,
      error |-> "Screenshot capture failed", names |-> <<>>],
     [screenshot |-> PNG, description |-> NULL,
      error |-> "classification error", names |-> <<>>]}
    \cup {[screenshot |-> PNG, description |-> "description",
           error |-> NULL, names |-> names] : names \in SaveLabels}

\* what INSERT INTO captures does on the shared connection
InsertOutcomes == {"inserted", "raised"}

InitCycle ==
    /\ InitDaemon
    /\ HarnessIdle

\* the thread of the next cycle enters save_capture(...)
save_capture_call(args) ==
    /\ Cardinality(Savers) < MaxSavers
    /\ LET w == Cardinality(Savers) + 1
       IN workers' = [x \in DOMAIN workers \cup {w} |->
                        IF x \in DOMAIN workers THEN workers[x]
                        ELSE [timestamp |-> SaveTime(w), labels |-> args.names,
                              args |-> args, capture_id |-> 0, rest |-> args.names,
                              pc |-> "capture", id |-> 0]]
    /\ UNCHANGED <<clock, loop_vars, store_vars, last_5min_summary,
                   last_hourly_summary, gens, harness_vars, proc_vars>>

\* another thread is inside save_capture on the connection
shared_with(w) == DOMAIN workers \ {w} # {}

\* INSERT INTO captures (...); capture_id = cursor.lastrowid; without labels
\* self.conn.commit() and the return.  Raised: the statement fails in the
\* sqlite3 module, no row is inserted and the exception leaves save_capture
save_capture_execute(w, outcome) ==
    /\ w \in DOMAIN workers /\ workers[w].pc = "capture"
    /\ outcome = "raised" => shared_with(w)
    /\ LET a == workers[w].args
           row == capture_row(captures, workers[w].timestamp, a.screenshot,
                              a.description, a.error, {})
       IN IF outcome = "raised"
          THEN /\ captures' = captures
               /\ SaveReturn(w, TRUE)
          ELSE /\ captures' = captures \cup {row}
               /\ IF a.names = <<>>
                  THEN SaveReturn(w, FALSE)
                  ELSE /\ workers' = [workers EXCEPT ![w] =
                                         [@ EXCEPT !.capture_id = row.id, !.pc = "select"]]
                       /\ returned' = returned
    /\ UNCHANGED <<clock, loop_vars, labels, summaries, last_5min_summary,
                   last_hourly_summary, gens, calls, thin_runs, proc_vars>>

NextCycle ==
    \/ \E d \in {Interval} : Advance(d)
    \/ \E args \in CycleSaves : save_capture_call(args)
    \/ \E w \in DOMAIN workers, outcome \in InsertOutcomes : save_capture_execute(w, outcome)
    \/ \E w \in DOMAIN workers : save_capture_select(w)
    \/ \E w \in DOMAIN workers : save_capture_update(w)
    \/ \E w \in DOMAIN workers : save_capture_create(w)

SpecCycle == InitCycle /\ [][NextCycle]_vars

----------------------------------------------------------------------------
(* Properties *)

RowsOf(type) == {r \in summaries : r.summary_type = type}

\* the watermark of a granularity, before and after a step
watermark(type) == IF type = "5min" THEN last_5min_summary ELSE last_hourly_summary
watermark_after(type) == IF type = "5min" THEN last_5min_summary' ELSE last_hourly_summary'

\* the source records a generation thread sees at its fetch
SourceOf(k) ==
    IF gens[k].type = "5min"
    THEN get_captures_since(captures, gens[k].start_time)
    ELSE get_summaries_in_range(summaries, "5min", gens[k].start_time, gens[k].now)

\* this step is a step of thread k
StepOf(k) == k \in DOMAIN gens /\ (k \notin DOMAIN gens' \/ gens'[k] # gens[k])

\* C1: for each granularity the persisted rollups, ordered by start_time, are
\* contiguous and non-overlapping: two rows never overlap, and a row that
\* directly follows another one starts where that one ends.
C1_RollupsContiguous ==
    \A type \in Types : \A a, b \in RowsOf(type) :
        a # b =>
          /\ ~(a.start_time < b.end_time /\ b.start_time < a.end_time)
          /\ (/\ a.start_time < b.start_time
              /\ ~\E m \in RowsOf(type) : a.start_time < m.start_time
                                          /\ m.start_time < b.start_time)
                => a.end_time = b.start_time

\* C2: at no time are two rollup generations of the same granularity in
\* flight together.
C2_OneGenerationPerGranularity ==
    \A j, k \in DOMAIN gens : j # k => gens[j].type # gens[k].type

\* C3: when summarization fails in a generation that read watermark W, no
\* rollup row is persisted and the watermark of that granularity is W afterwards.
C3_FailureLeavesWatermark ==
    [][\A k \in DOMAIN gens :
          (/\ gens[k].pc = "fetch"
           /\ SourceOf(k) # {}
           /\ k \notin DOMAIN gens')
            => /\ summaries' = summaries
               /\ watermark_after(gens[k].type) = gens[k].start_time]_vars

\* C4: a generation whose source-record set is empty persists no rollup row,
\* does not go on to the Summarizer (it returns), and sets the watermark of
\* its granularity to its own now.
C4_EmptyWindowAdvances ==
    [][\A k \in DOMAIN gens :
          (/\ gens[k].pc = "fetch"
           /\ SourceOf(k) = {}
           /\ StepOf(k))
            => /\ k \notin DOMAIN gens'
               /\ summaries' = summaries
               /\ watermark_after(gens[k].type) = gens[k].now]_vars

\* a watermark moved to an instant although no rollup row was ever written:
\* an empty window was skipped
C4_Witness ==
    /\ last_5min_summary = StartTime
    /\ last_hourly_summary = StartTime
    /\ summaries = {}

\* C5: a watermark changes to T only when a rollup row of that granularity
\* ending at T is already in the store or the window ending at T was found
\* empty in that step; and when the store fails while persisting the rollup,
\* only that generation ends: both watermarks, the tick loop and the other
\* threads are as before.
C5_WatermarkOnlyAfterPersist ==
    [][/\ \A type \in Types :
            watermark_after(type) # watermark(type) =>
               \/ \E r \in RowsOf(type) : r.end_time = watermark_after(type)
               \/ \E k \in DOMAIN gens :
                     /\ gens[k].type = type /\ gens[k].pc = "fetch"
                     /\ gens[k].now = watermark_after(type)
                     /\ SourceOf(k) = {} /\ k \notin DOMAIN gens'
       /\ \A k \in DOMAIN gens :
            (/\ gens[k].pc \in {"save", "video"}
             /\ k \notin DOMAIN gens')
              => /\ summaries' = summaries
                 /\ last_5min_summary' = last_5min_summary
                 /\ last_hourly_summary' = last_hourly_summary
                 /\ gens' = Drop(gens, k)
                 /\ UNCHANGED <<loop_vars, workers, captures, labels, proc_vars>>]_vars

\* a watermark that was advanced to the end of a persisted rollup
C5_Witness ==
    /\ last_5min_summary > StartTime - Period5min
    /\ \E r \in RowsOf("5min") : r.end_time = last_5min_summary

\* C6: the source set of a short-window generation with watermark W and end
\* time N is exactly the persisted Samples with W <= timestamp < N.
C6_HalfOpenSourceSet ==
    [][\A k \in DOMAIN gens :
          (/\ gens[k].type = "5min" /\ gens[k].pc = "fetch"
           /\ k \in DOMAIN gens' /\ gens'[k].pc = "save")
            => gens'[k].src = {c.id : c \in {x \in captures :
                                  /\ gens[k].start_time <= x.timestamp
                                  /\ x.timestamp < gens[k].now}}]_vars

\* C7: each next deadline equals the previous deadline plus the interval.
C7_DeadlinesArithmetic ==
    [][next_capture_time' # next_capture_time
          => next_capture_time' = next_capture_time + Interval]_vars

\* the chronologically first Sample of its 5-minute bucket within [start, end)
FirstOfBucket(c, caps, start_time, end_time) ==
    ~\E o \in cleanup_range(caps, start_time, end_time) :
        /\ window_start(o.timestamp) = window_start(c.timestamp)
        /\ Before(o, c)

\* C8: after thinning [start, end), a Sample in that window has a non-null
\* payload if and only if it is the chronologically first Sample of its bucket.
C8_OnlyThumbnailsKeepPayload ==
    thin_runs >= 1 =>
        \A c \in cleanup_range(captures, last_hourly_summary, clock) :
            (c.screenshot # NULL)
               <=> FirstOfBucket(c, captures, last_hourly_summary, clock)

C11_CallMakesLabelMostRecent ==
    [][\A c \in DOMAIN calls :
          (c \in DOMAIN returned' /\ ~returned'[c].raised) =>
              \A l \in labels' : \A o \in labels' :
                  l.id = returned'[c].id => ~last_used_less(l.last_used, o.last_used)]_vars

\* C12: frames staged for the encoder are on disk only while their generation
\* is between the staging and the end of the encode step: on every way out of
\* the video pipeline no staged frame is left.
C12_NoStagedFramesLeft ==
    \A f \in temp_files : f.dir \in DOMAIN gens /\ gens[f.dir].pc = "encode"

\* a generation has staged frames, encoded them and gone on; nothing is left
C12_Witness ==
    /\ temp_files = {}
    /\ \E k \in DOMAIN gens : gens[k].pc = "cleanup" /\ gens[k].video_path # NoVideo

\* C13: an hourly generation that persisted its rollup without a video goes on
\* through thinning to the watermark advance.
C13_VideoFailureNonFatal ==
    [][\A k \in DOMAIN gens :
          (/\ At(k, "hourly", "cleanup") /\ db_open
           /\ gens[k].video_path = NoVideo
           /\ StepOf(k))
          => (k \in DOMAIN gens' /\ gens'[k].pc = "advance")]_vars

\* a tick step: the body of one iteration of the loop in run()
TickStep == loop_pc = "tick" /\ loop_pc' = "top"

\* the Sample a failed capture leaves: empty payload, error marker, stamped now
ErrorSample(row, now) ==
    /\ row.screenshot = EMPTY
    /\ row.classification_error # NULL
    /\ row.description = NULL
    /\ row.labels = {}
    /\ row.timestamp = now

\* C14: a tick either launches one ClassificationWorker and persists nothing,
\* or (capture failed) persists exactly one Sample with no payload and an error
\* marker and launches no worker; in both cases the next deadline is set in
\* the same way and the loop returns to its head.
C14_CaptureFailurePersistsErrorSample ==
    [][(TickStep /\ db_open) =>
          /\ \/ /\ captures' = captures
                /\ DOMAIN workers' = DOMAIN workers \cup {iteration}
                /\ iteration \notin DOMAIN workers
             \/ /\ workers' = workers
                /\ \E row \in captures' \ captures :
                      /\ captures' = captures \cup {row}
                      /\ ErrorSample(row, clock)
          /\ next_capture_time' = clock + Interval
          /\ running' = running
          /\ iteration' = iteration]_vars

\* a second tick has begun after a tick whose capture failed
C14_Witness ==
    /\ iteration = 2 /\ loop_pc = "tick"
    /\ \E c \in captures : ErrorSample(c, StartTime)
    /\ workers = <<>>

\* C15: a classification thread that saves persists exactly one Sample; when
\* the Sample carries the error marker it has no description and no labels,
\* and the label rows and both watermarks are as they were.
C15_ClassifierFailureLeavesVocabulary ==
    [][\A w \in DOMAIN workers :
          (w \notin DOMAIN workers' /\ db_open /\ Alive) =>
              \E row \in captures' \ captures :
                  /\ captures' = captures \cup {row}
                  /\ row.screenshot = PNG
                  /\ last_5min_summary' = last_5min_summary
                  /\ last_hourly_summary' = last_hourly_summary
                  /\ (row.classification_error # NULL =>
                         /\ row.description = NULL
                         /\ row.labels = {}
                         /\ labels' = labels)]_vars

\* a failed classification was saved while the vocabulary held a label
C15_Witness ==
    /\ labels # {}
    /\ \E c \in captures : /\ c.screenshot = PNG
                           /\ c.classification_error # NULL
                           /\ c.timestamp >= StartTime

\* C16: the shutdown clears the running flag; once the flag is cleared no
\* iteration of the loop begins, and with the loop at its head nothing is
\* captured, no thread is started and the process may exit with threads in
\* flight, which it leaves as they are.
C16_NoTickAfterShutdown ==
    [][/\ (db_open /\ ~db_open') => ~running'
       /\ (iteration' # iteration) => running
       /\ (~running /\ loop_pc = "top") =>
             /\ loop_pc' \in {"top", "exited"}
             /\ next_capture_time' = next_capture_time
             /\ DOMAIN workers' \subseteq DOMAIN workers
             /\ DOMAIN gens' \subseteq DOMAIN gens
       /\ (loop_pc = "top" /\ loop_pc' = "exited") =>
             (workers' = workers /\ gens' = gens)]_vars

\* the process exited after a shutdown signal with a generation in flight
C16_Witness ==
    /\ loop_pc = "exited" /\ exit_status = <<0>>
    /\ ~running
    /\ gens # <<>>
    /\ iteration >= 1

\* C17: when grim, the API key or ffmpeg is missing, the process exits with a
\* non-zero status from __init__: the loop never starts, the database is not
\* opened, nothing is captured and no thread is started.
C17_StartupFailsFast ==
    available # Requirements =>
        /\ loop_pc \in {"new", "exited"}
        /\ (loop_pc = "exited" => exit_status = <<1>>)
        /\ ~running /\ ~db_open
        /\ iteration = 0
        /\ captures \in PriorTables
        /\ workers = <<>> /\ gens = <<>>

\* the process exited from __init__ with ffmpeg as the only thing missing
C17_Witness ==
    /\ available = Requirements \ {"ffmpeg"}
    /\ loop_pc = "exited"
    /\ exit_status = <<1>>

C19_SuccessPersistsAndAdvances ==
    [][\A k \in DOMAIN gens :
          (/\ StepOf(k) /\ k \notin DOMAIN gens'
           /\ gens[k].pc \in {"cleanup", "advance"}
           /\ db_open)
          => /\ watermark_after(gens[k].type) = gens[k].now
             /\ Cardinality({r \in RowsOf(gens[k].type) :
                                /\ r.start_time = gens[k].start_time
                                /\ r.end_time = gens[k].now}) = 1]_vars

\* the period of a granularity
period(type) == IF type = "5min" THEN Period5min ELSE PeriodHourly

\* C20: every rollup row persisted by the daemon spans at least one full
\* period of its granularity.
C20_RollupSpansAPeriod ==
    \A r \in summaries : r.end_time - r.start_time >= period(r.summary_type)

\* C10: two get_or_create_label calls with the same name return the same
\* label id, and the labels table never holds two rows with the same name.
C10_GetOrCreateIdempotent ==
    /\ \A a, b \in DOMAIN returned :
          (/\ ~returned[a].raised /\ ~returned[b].raised
           /\ returned[a].name = returned[b].name)
             => returned[a].id = returned[b].id
    /\ \A l, m \in labels : l.name = m.name => l = m

\* two calls with one name have returned, one having created the label and
\* one having found it, while a call with another name created a second label
C10_Witness ==
    /\ \E a, b \in DOMAIN returned :
          /\ a # b /\ returned[a].name = returned[b].name
          /\ ~returned[a].raised /\ ~returned[b].raised
    /\ Cardinality(labels) = 2

\* the rows whose payload this step changed
PayloadChanged ==
    {c \in captures : \E d \in captures' : d.id = c.id /\ d.screenshot # c.screenshot}

\* C21: the video block and the thinning are steps of an hourly generation
\* only, one whose window was not empty and whose summary is not the error
\* marker; the thinning step is taken only when the rollup row of the
\* generation is in the store and its video block is over (no staged directory
\* is left); the temporary files and the payloads change in no other step.
C21_VideoAndThinningOnlyAfterSuccess ==
    [][/\ \A k \in DOMAIN gens :
            (StepOf(k) /\ gens[k].pc \in {"video", "encode", "cleanup"}) =>
               /\ gens[k].type = "hourly"
               /\ gens[k].src # {}
               /\ gens[k].summary # <<>>
               /\ ~startswith_error(gens[k].summary)
       /\ \A k \in DOMAIN gens :
            (StepOf(k) /\ gens[k].pc = "cleanup") =>
               /\ \E r \in RowsOf("hourly") :
                     /\ r.start_time = gens[k].start_time
                     /\ r.end_time = gens[k].now
                     /\ r.video_path = gens[k].video_path
               /\ \A f \in temp_files : f.dir # k
       /\ temp_files' # temp_files =>
            \E k \in DOMAIN gens : StepOf(k) /\ gens[k].pc \in {"video", "encode"}
       /\ PayloadChanged # {} =>
            \E k \in DOMAIN gens : StepOf(k) /\ gens[k].pc = "cleanup"]_vars

\* an hourly generation has encoded its video, persisted its rollup with the
\* video and thinned its window
C21_Witness ==
    \E k \in DOMAIN gens :
        /\ gens[k].type = "hourly" /\ gens[k].pc = "advance"
        /\ gens[k].video_path # NoVideo
        /\ \E r \in RowsOf("hourly") : r.video_path = gens[k].video_path

\* the Samples of the window [start_time, end_time)
InWindow(caps, start_time, end_time) ==
    {c \in caps : start_time <= c.timestamp /\ c.timestamp < end_time}

\* C22: the Samples an hourly generation fetches for the video and the Samples
\* its thinning selects are both exactly the Samples of its window, those
\* with start_time <= timestamp < now.
C22_VideoAndThinningSameSamples ==
    [][\A k \in DOMAIN gens :
          /\ (At(k, "hourly", "video") /\ db_open /\ StepOf(k)) =>
                get_captures_since(captures, gens[k].start_time)
                    = InWindow(captures, gens[k].start_time, gens[k].now)
          /\ (At(k, "hourly", "cleanup") /\ db_open /\ StepOf(k)) =>
                cleanup_range(captures, gens[k].start_time, gens[k].now)
                    = InWindow(captures, gens[k].start_time, gens[k].now)]_vars

\* C23: the thinning step of an hourly generation deletes and adds no Sample
\* row, leaves timestamp, description, labels and error marker of every Sample
\* as they were, leaves every Sample outside [start_time, now) exactly as it
\* was, and leaves the labels and the rollups untouched.
C23_ThinningTouchesOnlyPayloads ==
    [][\A k \in DOMAIN gens :
          (At(k, "hourly", "cleanup") /\ db_open /\ StepOf(k)) =>
             /\ {c.id : c \in captures'} = {c.id : c \in captures}
             /\ Cardinality(captures') = Cardinality(captures)
             /\ \A c \in captures : \E d \in captures' :
                   /\ d.id = c.id
                   /\ d.timestamp = c.timestamp
                   /\ d.description = c.description
                   /\ d.labels = c.labels
                   /\ d.classification_error = c.classification_error
                   /\ (c \notin InWindow(captures, gens[k].start_time, gens[k].now)
                          => d = c)
             /\ labels' = labels
             /\ summaries' = summaries]_vars

\* the thinning of a persisted hourly rollup is over; its window held two
\* Samples with a payload in one bucket, a Sample lies outside the window and
\* the vocabulary holds a label
C23_Witness ==
    /\ Alive /\ db_open
    /\ gens = <<>>
    /\ labels # {}
    /\ \E r \in RowsOf("hourly") :
          /\ \E a, b \in InWindow(captures, r.start_time, r.end_time) :
                /\ a # b /\ a.screenshot = PNG /\ b.screenshot = PNG
                /\ window_start(a.timestamp) = window_start(b.timestamp)
          /\ \E c \in captures : c.timestamp >= r.end_time /\ c.labels # {}

\* C24: the labels table changes only in the step of a classification thread
\* that saves a Sample of a successful classification (no error marker), and
\* then only in the rows of the labels of that Sample; the tick, with a
\* successful or a failed capture, the generations of both granularities, the
\* video block and the thinning leave every label row as it was.
C24_OnlyClassificationWritesLabels ==
    [][labels' # labels =>
          \E w \in DOMAIN workers :
             /\ w \notin DOMAIN workers'
             /\ gens' = gens
             /\ loop_pc' = loop_pc
             /\ \E row \in captures' \ captures :
                   /\ captures' = captures \cup {row}
                   /\ row.classification_error = NULL
                   /\ row.timestamp = workers[w].timestamp
                   /\ row.labels # {}
                   /\ \A l \in labels' \ labels : l.id \in row.labels
                   /\ \A l \in labels \ labels' : l.id \in row.labels]_vars

\* a label was created and later refreshed by classification threads, while a
\* rollup was generated and the clock had moved on
C24_Witness ==
    /\ \E l \in labels : l.last_used.iso /\ l.last_used.t > StartTime
    /\ summaries # {}

\* the ids of the label rows with the given names
IdsOf(lbls, names) ==
    {l.id : l \in {m \in lbls : \E i \in 1..Len(names) : names[i] = m.name}}

\* C25: every classification thread that went into save_capture with a
\* successful result leaves exactly one Sample with the timestamp of its
\* capture, the description, no error marker and exactly the labels the
\* Classifier returned, each of them a row of the labels table; also when
\* other threads save at the same time.
C25_SuccessPersistsSampleWithLabels ==
    \A w \in DOMAIN returned :
        LET rows == {c \in captures : c.timestamp = returned[w].timestamp}
        IN /\ Cardinality(rows) = 1
           /\ \A c \in rows :
                 /\ c.description = "description"
                 /\ c.classification_error = NULL
                 /\ Cardinality(c.labels) = Len(returned[w].labels)
                 /\ c.labels = IdsOf(labels, returned[w].labels)

\* C26: the loop never waits for a thread: whatever threads are in flight,
\* the tick with a successful capture can be taken as soon as the loop is at
\* it, the sleep ends as soon as the deadline has passed and the loop head is
\* passed while the daemon runs; and the tick that starts a classification
\* thread persists nothing, sets the next deadline from the current time and
\* leaves every thread in flight where it is.
C26_DispatchNonBlocking ==
    [][/\ loop_pc = "tick" => ENABLED tick_capture_and_classify
       /\ (loop_pc = "sleep" /\ clock >= next_capture_time) => ENABLED run_sleep
       /\ (loop_pc = "top" /\ running /\ iteration < MaxTicks) => ENABLED run_top
       /\ (TickStep /\ iteration \in DOMAIN workers' /\ iteration \notin DOMAIN workers) =>
             /\ store_vars' = store_vars
             /\ next_capture_time' = clock + Interval
             /\ \A w \in DOMAIN workers : w \in DOMAIN workers' /\ workers'[w] = workers[w]
             /\ \A k \in DOMAIN gens : k \in DOMAIN gens' /\ gens'[k] = gens[k]]_vars

\* the second tick was taken on its deadline and has started its thread while
\* the classification thread and the generation of the first tick are still
\* in flight; nothing has been persisted
C26_Witness ==
    /\ loop_pc = "top" /\ iteration = 2
    /\ DOMAIN workers = {1, 2}
    /\ workers[2].timestamp = StartTime + Interval
    /\ \E k \in DOMAIN gens : k[2] = 1
    /\ captures \in PriorTables

\* the Summarizer call failed: the API raised, did not complete, refused or
\* returned no text
CallFailed(response) ==
    \/ response.raised
    \/ response.status # "completed"
    \/ response.refusal
    \/ response.output_text = <<>>

\* C27: a 5min generation with a non-empty window ends without a rollup if
\* and only if the Summarizer call failed; when the call returned a text, the
\* generation goes on to persist that text (stripped), whatever its length and
\* its first words.
C27_FailureIffCallFailed ==
    [][\A k \in DOMAIN gens :
          (At(k, "5min", "fetch") /\ db_open /\ SourceOf(k) # {} /\ StepOf(k)) =>
             /\ (k \notin DOMAIN gens') <=> CallFailed(calls[1])
             /\ ~CallFailed(calls[1]) =>
                   /\ k \in DOMAIN gens'
                   /\ gens'[k].pc = "save"
                   /\ gens'[k].summary = strip(calls[1].output_text)]_vars

\* C28: ffmpeg is run at most once by the video block, and only on at least
\* one frame: when no Sample of the window has a payload, or none of the
\* staged files is found, the block yields no video and has not run ffmpeg;
\* when ffmpeg was run, a frame was there.
C28_NoFramesNoEncoder ==
    \A i \in DOMAIN returned :
        /\ returned[i].encoder_runs <= 1
        /\ (returned[i].frames = {} \/ returned[i].exists = {}) =>
              /\ returned[i].encoder_runs = 0
              /\ returned[i].video_path = NoVideo
        /\ returned[i].video_path # NoVideo => returned[i].encoder_runs = 1

\* the block was applied to a window whose staged frames were all gone when
\* generate_video looked for them: no video, ffmpeg not run
C28_Witness ==
    \E i \in DOMAIN returned :
        /\ returned[i].frames # {} /\ returned[i].exists = {}
        /\ ~returned[i].raised
        /\ returned[i].encoder_runs = 0
        /\ returned[i].video_path = NoVideo

\* C29: at the loop head the loop goes straight to the tick when the
\* deadline has passed and sleeps otherwise; while it sleeps the time that
\* remains to the deadline is positive and at most one interval; the sleep
\* does not end before the deadline and can end as soon as it is reached.
C29_SleepOnlyToDeadline ==
    [][/\ (loop_pc = "top" /\ loop_pc' \in {"sleep", "tick"}) =>
             /\ (loop_pc' = "tick") <=> (clock >= next_capture_time)
             /\ (loop_pc' = "sleep") <=> (clock < next_capture_time)
       /\ loop_pc = "sleep" =>
             /\ next_capture_time - clock <= Interval
             /\ (clock >= next_capture_time) => ENABLED run_sleep
       /\ loop_pc' = "sleep" => next_capture_time' - clock' <= Interval
       /\ (loop_pc = "sleep" /\ loop_pc' # "sleep") =>
             /\ loop_pc' = "tick"
             /\ clock >= next_capture_time]_vars

\* the loop sleeps before its second tick, one interval ahead of the deadline
C29_Witness ==
    /\ loop_pc = "sleep" /\ iteration = 2
    /\ next_capture_time - clock = Interval

\* the rollups persisted before the restart at StartTime, and the first one
\* of those persisted after it, as a step leaves them
PriorRows(type) == {r \in RowsOf(type) : r.end_time < StartTime}
NewRowsAfter(type) ==
    {r \in summaries' : r.summary_type = type /\ r.end_time >= StartTime}
FirstNewRowsAfter(type) ==
    {r \in NewRowsAfter(type) : \A o \in NewRowsAfter(type) : r.id <= o.id}
LatestEnd(type) == Max({r.end_time : r \in PriorRows(type)})

\* what the claim says a watermark is seeded with
SeedOf(type, now) ==
    IF PriorRows(type) # {} THEN LatestEnd(type) ELSE now - period(type)

\* the step of __init__ that constructs the daemon
InitStep == loop_pc = "new" /\ loop_pc' = "constructed"

\* C30 (as stated): __init__ sets each watermark to the end_time of the latest
\* rollup of its granularity, or to now - period when there is none, and the
\* first rollup of a granularity persisted after the restart starts exactly
\* where the latest rollup persisted before the restart ended.
C30_FirstRollupStartsAtLatestEnd ==
    [][/\ InitStep => \A type \in Types : watermark_after(type) = SeedOf(type, clock)
       /\ \A type \in Types : \A r \in FirstNewRowsAfter(type) :
             PriorRows(type) # {} => r.start_time = LatestEnd(type)]_vars

\* C30 (amended): __init__ sets each watermark to the end_time of the latest
\* rollup of its granularity, or to now - period when there is none, and the
\* first rollup of a granularity persisted after the restart starts exactly
\* where the latest rollup persisted before the restart ended unless an empty
\* window was skipped before it, in which case it starts at an instant not
\* before the restart.
C30_SeededFromLatestRollup ==
    [][/\ InitStep => \A type \in Types : watermark_after(type) = SeedOf(type, clock)
       /\ \A type \in Types : \A r \in FirstNewRowsAfter(type) :
             PriorRows(type) # {} =>
                \/ r.start_time = LatestEnd(type)
                \/ r.start_time >= StartTime]_vars

\* a 5min rollup persisted after the restart starts where the latest 5min
\* rollup of the earlier run ended
C30_Witness ==
    \E r \in RowsOf("5min") :
        /\ r.end_time >= StartTime
        /\ PriorRows("5min") # {}
        /\ r.start_time = LatestEnd("5min")
        /\ \A o \in RowsOf("5min") : o.end_time >= StartTime => r.id <= o.id

\* C31: no step sets the watermark of a granularity to a value earlier than
\* the one it holds, whatever generations of that granularity are in flight.
C31_WatermarkNeverDecreases ==
    [][\A type \in Types : watermark_after(type) >= watermark(type)]_vars

\* the persisted 5min rollups that were generated from Sample c
RollupsFrom(c) == {i \in DOMAIN returned : c.id \in returned[i]}

\* C32: no Sample is in the source set of two persisted 5min rollups; and
\* when no generation is in flight, every persisted Sample that no later
\* generation can fetch (its timestamp is not after the watermark) is in the
\* source set of exactly one persisted 5min rollup.
C32_NoSampleLostToLag ==
    \A c \in captures :
        /\ Cardinality(RollupsFrom(c)) <= 1
        /\ (gens = <<>> /\ c.timestamp <= last_5min_summary)
              => Cardinality(RollupsFrom(c)) = 1

\* the persisted hourly rollups that were generated from the 5min rollup r
HourlyRollupsFrom(r) == {i \in DOMAIN returned : r.id \in returned[i]}

\* C33: no 5min rollup is in the source set of two persisted hourly rollups;
\* and when no hourly generation is in flight, every persisted 5min rollup
\* that no later hourly generation can fetch (it starts before the hourly
\* watermark) is in the source set of exactly one persisted hourly rollup.
C33_RollupInOneHourlyRollup ==
    \A r \in RowsOf("5min") :
        /\ Cardinality(HourlyRollupsFrom(r)) <= 1
        /\ (/\ \A k \in DOMAIN gens : gens[k].type # "hourly"
            /\ r.start_time < last_hourly_summary)
              => Cardinality(HourlyRollupsFrom(r)) = 1

\* the texts the Summarizer returns for a call that failed
FailureMarkers ==
    {generate_5min_summary({1}, response) : response \in {x \in ApiResponses : CallFailed(x)}}
    \cup {generate_hourly_summary({1}, response)
            : response \in {x \in ApiResponses : CallFailed(x)}}

\* C34: no persisted rollup row, of either granularity, has as content a text
\* that the Summarizer returns for a failed call.
C34_NoFailureMarkerPersisted ==
    \A r \in summaries : r.content \notin FailureMarkers

\* the pcs at which the next line of a generation thread is a call of the store
StoreCallPcs == {"fetch", "video", "save", "cleanup"}

\* C35: once stop() has closed the connection, no step is a call of the
\* store: no classification thread runs into get_all_labels or save_capture,
\* no generation thread runs the store call it is at, and no tick saves the
\* error Sample of a failed capture.
C35_NoStoreCallAfterClose ==
    [][(~db_open /\ ~db_open' /\ Alive /\ loop_pc # "new") =>
          /\ \A w \in DOMAIN workers : w \in DOMAIN workers'
          /\ \A k \in DOMAIN gens : gens[k].pc \in StoreCallPcs => ~StepOf(k)
          /\ ~(TickStep /\ workers' = workers)]_vars

\* the 5-minute bucket that starts at b lies inside the window [start, end)
BucketInside(b, start_time, end_time) ==
    start_time <= b /\ b + WindowMinutes * 60 <= end_time

\* C36: after the cleanup was applied to the window [last_hourly_summary,
\* clock), at most one Sample of every bucket that lies inside that window
\* has a non-null payload.
C36_OnePayloadPerBucket ==
    thin_runs >= 1 =>
        \A c, d \in captures :
            (/\ window_start(c.timestamp) = window_start(d.timestamp)
             /\ BucketInside(window_start(c.timestamp), last_hourly_summary, clock)
             /\ c.screenshot # NULL
             /\ d.screenshot # NULL)
               => c = d

\* C37: when the save_capture call of a capture cycle is over, exactly one
\* Sample row is stamped with the capture time of that cycle, whether the
\* capture failed, the classification failed or the classification succeeded.
C37_OneSamplePerCycle ==
    \A w \in DOMAIN returned :
        Cardinality({c \in captures : c.timestamp = returned[w].timestamp}) = 1

====
